---- MODULE Spec2Model ----
(***************************************************************************)
(* A model of clirasterizer (src/main.cpp): the tile-parallel software     *)
(* rasterizer, the half-block terminal encoder and the frame driver.       *)
(*                                                                         *)
(* Numbers.  The program computes in IEEE float.  The model computes on    *)
(* the grid of multiples of 1/ONE: a float value v is the integer v*ONE,   *)
(* and every float division or product that leaves the grid is rounded to  *)
(* the nearest grid value (RDiv), as a float operation rounds to the       *)
(* nearest representable value.  Comparisons, floor, ceil, truncation and  *)
(* clamping are then exact integer operations.                             *)
(***************************************************************************)
EXTENDS Integers, Sequences, FiniteSets, TLC

\* ------------------------------------------------------------------ bounds
MaxW == 3          \* width of the larger small framebuffer
MaxH == 3          \* height of the larger small framebuffer
MaxTris == 2       \* longest prepared-triangle list
MaxWorkers == 2    \* most threads parallel_for runs at once
MaxFrames == 2     \* frames the frame loop is followed for
MaxKeys == 1       \* most keys read in one frame
MaxEncW == 2       \* widest framebuffer given to the terminal encoder alone
MaxEncH == 3       \* highest framebuffer given to the terminal encoder alone
MaxYaw == 150      \* the camera's yaw is followed up to this many hundredths of a radian
MaxMove == 16      \* the camera is followed this far (in grid units) from its start

\* ------------------------------------------------------- program constants
TILE_SIZE == 16
STATUS_ROWS == 3
\* std::numeric_limits<float>::max(), on the model's grid: a finite value
\* far above every depth the rasterizer can produce.
FLT_MAX == 1000000
\* IEEE +infinity: greater than every finite float.
PosInfinity == FLT_MAX + 1

\* the grid unit: 1.0f
ONE == 10 * 10

\* ----------------------------------------------------------- float helpers
\* a / b rounded to the nearest integer (b # 0)
RDiv(a, b) ==
  IF b > 0 THEN (2 * a + b) \div (2 * b)
           ELSE (2 * (-a) + (-b)) \div (2 * (-b))

Abs(a) == IF a < 0 THEN -a ELSE a
Min2(a, b) == IF b < a THEN b ELSE a
Max2(a, b) == IF a < b THEN b ELSE a
Min3(a, b, c) == Min2(Min2(a, b), c)
Max3(a, b, c) == Max2(Max2(a, b), c)
\* std::clamp(v, lo, hi)
Clamp(v, lo, hi) == IF v < lo THEN lo ELSE IF hi < v THEN hi ELSE v
\* std::floor / std::ceil of a grid value, as an int
FloorInt(v) == v \div ONE
CeilInt(v) == -((-v) \div ONE)
\* 1.0f / x ; x = 0 gives +inf
FInv(x) == IF x = 0 THEN PosInfinity ELSE RDiv(ONE * ONE, x)

RECURSIVE ISqrtBetween(_, _, _)
ISqrtBetween(n, lo, hi) ==
  IF lo >= hi THEN lo
  ELSE LET mid == (lo + hi + 1) \div 2
       IN  IF mid * mid <= n THEN ISqrtBetween(n, mid, hi)
                             ELSE ISqrtBetween(n, lo, mid - 1)
\* floor(sqrt(n)) for n >= 0
ISqrt(n) == ISqrtBetween(n, 0, 4 * ONE)

V2(x, y) == [X |-> x, Y |-> y]
V3(x, y, z) == [X |-> x, Y |-> y, Z |-> z]
V4(x, y, z, w) == [X |-> x, Y |-> y, Z |-> z, W |-> w]

\* HMM_DotV3
DotV3(a, b) == RDiv(a.X * b.X + a.Y * b.Y + a.Z * b.Z, ONE)
\* HMM_NormV3: A * (1 / sqrt(A.A)).  A zero vector gives NaN components in
\* the program; every later use is max(0, NaN . L) = 0, which the zero
\* vector gives as well.
NormV3(a) ==
  LET len == ISqrt(a.X * a.X + a.Y * a.Y + a.Z * a.Z)
  IN  IF len = 0 THEN V3(0, 0, 0)
      ELSE V3(RDiv(a.X * ONE, len), RDiv(a.Y * ONE, len), RDiv(a.Z * ONE, len))

\* ------------------------------------------------------------------- Color
Color(r, g, b) == [r |-> r, g |-> g, b |-> b]
\* Color::operator*(float f), f on the grid
ColorMulF(c, f) ==
  Color(Clamp((c.r * f) \div ONE, 0, 255),
        Clamp((c.g * f) \div ONE, 0, 255),
        Clamp((c.b * f) \div ONE, 0, 255))

BgColor == Color(20, 20, 30)
Black == Color(0, 0, 0)
Gray == Color(200, 200, 200)

\* ------------------------------------------------------------- Framebuffer
\* Framebuffer::clear
FbClear(f) ==
  [f EXCEPT !.color_buffer = [i \in 0 .. (f.width * f.height - 1) |-> BgColor],
            !.depth_buffer = [i \in 0 .. (f.width * f.height - 1) |-> FLT_MAX]]

\* Framebuffer::Framebuffer(w, h)
FramebufferNew(w, h) ==
  FbClear([width |-> w, height |-> h,
           color_buffer |-> [i \in 0 .. (w * h - 1) |-> Black],
           depth_buffer |-> [i \in 0 .. (w * h - 1) |-> 0]])

\* Framebuffer::get_pixel
GetPixel(f, x, y) ==
  IF x < 0 \/ x >= f.width \/ y < 0 \/ y >= f.height THEN Black
  ELSE f.color_buffer[y * f.width + x]

\* Framebuffer::resize
FbResize(f, new_width, new_height) ==
  IF new_width = f.width /\ new_height = f.height THEN f
  ELSE FbClear([width |-> new_width, height |-> new_height,
                color_buffer |-> [i \in 0 .. (new_width * new_height - 1) |-> Black],
                depth_buffer |-> [i \in 0 .. (new_width * new_height - 1) |-> 0]])

\* ----------------------------------------------------------------- Texture
\* a loaded 3 x 3 RGB8 image (what stbi_load hands back), and the state of a
\* Texture whose load failed
TexelByte(i) ==
  LET texel == i \div 3
      ch == i % 3
  IN  IF ch = 0 THEN 250 - 30 * texel
      ELSE IF ch = 1 THEN 40 + 25 * texel
      ELSE 255 - 120 * (texel % 3)

LoadedTexture ==
  [width |-> 3, height |-> 3, loaded |-> TRUE,
   data |-> [i \in 0 .. 26 |-> TexelByte(i)]]
UnloadedTexture ==
  [width |-> 0, height |-> 0, loaded |-> FALSE, data |-> <<>>]

\* the texel coordinates Texture::sample reads
SampleX(tex, u) == Clamp(((u % ONE) * (tex.width - 1)) \div ONE, 0, tex.width - 1)
SampleY(tex, v) ==
  Clamp(((ONE - (v % ONE)) * (tex.height - 1)) \div ONE, 0, tex.height - 1)

\* Texture::sample
Sample(tex, u, v) ==
  IF ~tex.loaded THEN Gray
  ELSE LET idx == (SampleY(tex, v) * tex.width + SampleX(tex, u)) * 3
       IN  Color(tex.data[idx], tex.data[idx + 1], tex.data[idx + 2])

\* ------------------------------------- Texture::sample in binary floating point
\* A float of this section is an integer count of 2^-FracBits whose magnitude
\* has at most MantBits significant bits: the binary format of the source's
\* float, narrowed. Every operation rounds its exact result to the nearest
\* float, ties to the even mantissa, as the source's float arithmetic does.
FracBits == 6
MantBits == 4
\* u and v are drawn from the floats of [-MaxUV, MaxUV]
MaxUV == 2

FUnit == 2 ^ FracBits
MantLimit == 2 ^ MantBits

\* the spacing of the floats around a magnitude of a / den
RECURSIVE Ulp(_, _, _)
Ulp(a, den, k) == IF a < MantLimit * k * den THEN k ELSE Ulp(a, den, 2 * k)

\* the float nearest to num / den
RoundTo(num, den) ==
  LET a == Abs(num)
      k == Ulp(a, den, 1)
      q == a \div (k * den)
      r == a % (k * den)
      up == (2 * r > k * den) \/ (2 * r = k * den /\ q % 2 = 1)
      m == IF up THEN q + 1 ELSE q
  IN  IF num < 0 THEN -(m * k) ELSE m * k

FAdd(a, b) == RoundTo(a + b, 1)
FSub(a, b) == RoundTo(a - b, 1)
FMul(a, b) == RoundTo(a * b, FUnit)
\* an int converted to float
FromInt(n) == RoundTo(n * FUnit, 1)
\* std::floor
FFloor(a) == (a \div FUnit) * FUnit
\* static_cast<int>(float): toward zero
TruncInt(a) == IF a < 0 THEN -((-a) \div FUnit) ELSE a \div FUnit

\* mutant: the coordinate used as given
Wrap_Identity(u) == u
\* "Wrap UV coordinates": u - std::floor(u)
Wrap(u) == FSub(u, FFloor(u))

\* the texel column and row Texture::sample reads
TexelX(tex, u) ==
  Clamp(TruncInt(FMul(Wrap(u), FromInt(tex.width - 1))), 0, tex.width - 1)
TexelY(tex, v) ==
  Clamp(TruncInt(FMul(FSub(FUnit, Wrap(v)), FromInt(tex.height - 1))), 0, tex.height - 1)

\* Texture::sample on floats
SampleFloat(tex, u, v) ==
  IF ~tex.loaded THEN Gray
  ELSE LET idx == (TexelY(tex, v) * tex.width + TexelX(tex, u)) * 3
       IN  Color(tex.data[idx], tex.data[idx + 1], tex.data[idx + 2])

\* Texture::load of a w x h image whose texels all differ
TextureOf(w, h) ==
  [width |-> w, height |-> h, loaded |-> TRUE,
   data |-> [i \in 0 .. (w * h * 3 - 1) |->
               IF i % 3 = 0 THEN 10 * (i \div 3)
               ELSE IF i % 3 = 1 THEN 255 - (i \div 3) ELSE 7]]

\* -------------------------------------------------------------- Rasterizer
\* Rasterizer::light_dir, set by the constructor
LightDir == NormV3(V3(ONE \div 2, ONE, (8 * ONE) \div 10))

\* the lambda `edge` of prepare_triangle and rasterize_triangle_in_tile
Edge(a, b, px, py) == (px - a.X) * (b.Y - a.Y) - (py - a.Y) * (b.X - a.X)

\* w <= 0.001f
BehindEye(w) == w * 1000 <= ONE
\* mutant: no area is too small
Degenerate_Never(area) == FALSE
\* std::abs(area) < 0.001f ; an area is a product of two grid values
Degenerate(area) == Abs(area) * 1000 < ONE * ONE

\* one vertex of prepare_triangle's screen-space loop
ScreenVert(c, fbw, fbh) ==
  LET x == RDiv(c.X * ONE, c.W)
      y == RDiv(c.Y * ONE, c.W)
      z == RDiv(c.Z * ONE, c.W)
  IN  V3(RDiv((x + ONE) * fbw, 2), RDiv((ONE - y) * fbh, 2), z)

\* the pixel bounding box of prepare_triangle, clamped to the framebuffer
BBoxMinX(sv) == Max2(0, FloorInt(Min3(sv[1].X, sv[2].X, sv[3].X)))
BBoxMaxX(sv, fbw) == Min2(fbw - 1, CeilInt(Max3(sv[1].X, sv[2].X, sv[3].X)))
BBoxMinY(sv) == Max2(0, FloorInt(Min3(sv[1].Y, sv[2].Y, sv[3].Y)))
BBoxMaxY(sv, fbh) == Min2(fbh - 1, CeilInt(Max3(sv[1].Y, sv[2].Y, sv[3].Y)))

\* Rasterizer::prepare_triangle.  A triangle rejected for a vertex behind
\* the eye is returned with only `valid` (and the copied attributes) set;
\* nothing reads its other fields, which the model holds at 0.
PrepareTriangle(clip_verts, texcoords, normals, fbw, fbh) ==
  IF \E i \in 1 .. 3 : BehindEye(clip_verts[i].W)
  THEN [screen_verts |-> <<V3(0, 0, 0), V3(0, 0, 0), V3(0, 0, 0)>>,
        clip_verts |-> clip_verts, texcoords |-> texcoords, normals |-> normals,
        area |-> 0, min_x |-> 0, max_x |-> 0, min_y |-> 0, max_y |-> 0,
        valid |-> FALSE]
  ELSE LET sv == [i \in 1 .. 3 |-> ScreenVert(clip_verts[i], fbw, fbh)]
           area == Edge(sv[1], sv[2], sv[3].X, sv[3].Y)
       IN  [screen_verts |-> sv,
            clip_verts |-> clip_verts, texcoords |-> texcoords, normals |-> normals,
            area |-> area,
            min_x |-> BBoxMinX(sv), max_x |-> BBoxMaxX(sv, fbw),
            min_y |-> BBoxMinY(sv), max_y |-> BBoxMaxY(sv, fbh),
            valid |-> ~Degenerate(area)]

\* the three edge functions at the centre of pixel (x, y)
EdgeWeights(tri, x, y) ==
  LET px == x * ONE + ONE \div 2
      py == y * ONE + ONE \div 2
      sv == tri.screen_verts
  IN  <<Edge(sv[2], sv[3], px, py), Edge(sv[3], sv[1], px, py),
        Edge(sv[1], sv[2], px, py)>>

\* bool inside
Inside(w) ==
  \/ (w[1] >= 0 /\ w[2] >= 0 /\ w[3] >= 0)
  \/ (w[1] <= 0 /\ w[2] <= 0 /\ w[3] <= 0)

\* w0 *= inv_area ; w1 *= inv_area ; w2 *= inv_area
Barycentric(tri, w) ==
  <<RDiv(w[1] * ONE, tri.area), RDiv(w[2] * ONE, tri.area),
    RDiv(w[3] * ONE, tri.area)>>

\* float depth = w0 * z0 + w1 * z1 + w2 * z2
FragDepth(tri, b) ==
  RDiv(b[1] * tri.screen_verts[1].Z + b[2] * tri.screen_verts[2].Z
         + b[3] * tri.screen_verts[3].Z, ONE)

\* if (depth < -1.0f || depth > 1.0f) continue;
DepthOutOfRange(depth) == depth < -ONE \/ depth > ONE

\* mutants of the depth test: the comparison turned round; no test at all
DepthTestFails_Flipped(depth, stored) == depth <= stored
DepthTestFails_Never(depth, stored) == FALSE

\* mutant: an equal depth passes the test
DepthTestFails_TiePasses(depth, stored) == depth > stored

\* if (depth >= tile_depths[local_idx]) continue;
DepthTestFails(depth, stored) == depth >= stored

\* perspective-correct interpolation of one attribute
Interpolate(b, iw, corr, a1, a2, a3) ==
  RDiv(RDiv(b[1] * a1 * iw[1] + b[2] * a2 * iw[2] + b[3] * a3 * iw[3], ONE * ONE)
         * corr, ONE)

\* the shaded colour of the fragment with barycentrics b
Shade(tri, b, tex) ==
  LET iw == [i \in 1 .. 3 |-> FInv(tri.clip_verts[i].W)]
      inv_w == RDiv(b[1] * iw[1] + b[2] * iw[2] + b[3] * iw[3], ONE)
      corr == FInv(inv_w)
      tc == tri.texcoords
      nm == tri.normals
      u == Interpolate(b, iw, corr, tc[1].X, tc[2].X, tc[3].X)
      v == Interpolate(b, iw, corr, tc[1].Y, tc[2].Y, tc[3].Y)
      normal == NormV3(V3(Interpolate(b, iw, corr, nm[1].X, nm[2].X, nm[3].X),
                          Interpolate(b, iw, corr, nm[1].Y, nm[2].Y, nm[3].Y),
                          Interpolate(b, iw, corr, nm[1].Z, nm[2].Z, nm[3].Z)))
      base_color == Sample(tex, u, v)
      ndotl == Max2(0, DotV3(normal, LightDir))
      lighting == (3 * ONE) \div 10 + RDiv(7 * ndotl, 10)
  IN  ColorMulF(base_color, lighting)

\* mutant: the row taken in framebuffer instead of tile coordinates
LocalIdx_GlobalRow(x, y, tile_x0, tile_y0, tile_width) ==
  y * tile_width + (x - tile_x0)

\* int local_idx = local_y * tile_width + local_x
LocalIdx(x, y, tile_x0, tile_y0, tile_width) ==
  (y - tile_y0) * tile_width + (x - tile_x0)

\* mutant: the triangle's box not clamped to the tile's right edge
ClampX1_Unclamped(tri, tile_x1) == tri.max_x

\* the clamp of the triangle's box to the tile
ClampX1(tri, tile_x1) == Min2(tri.max_x, tile_x1)
ClampY1(tri, tile_y1) == Min2(tri.max_y, tile_y1)

\* a vector element; the model reads FLT_MAX where the program would read
\* past the end (no reachable state does)
At(buf, i) == IF i \in DOMAIN buf THEN buf[i] ELSE FLT_MAX

\* one iteration of the pixel loops of rasterize_triangle_in_tile: acc is
\* [colors, depths, writes]
RasterPixel(tri, x, y, tile_x0, tile_y0, tile_width, tex, acc) ==
  LET w == EdgeWeights(tri, x, y) IN
  IF ~Inside(w) THEN acc
  ELSE
    LET b == Barycentric(tri, w)
        depth == FragDepth(tri, b)
        local_idx == LocalIdx(x, y, tile_x0, tile_y0, tile_width)
    IN  IF DepthOutOfRange(depth) THEN acc
        ELSE IF DepthTestFails(depth, At(acc.depths, local_idx)) THEN acc
        ELSE [colors |-> IF local_idx \in DOMAIN acc.colors
                         THEN [acc.colors EXCEPT ![local_idx] = Shade(tri, b, tex)]
                         ELSE acc.colors,
              depths |-> IF local_idx \in DOMAIN acc.depths
                         THEN [acc.depths EXCEPT ![local_idx] = depth]
                         ELSE acc.depths,
              writes |-> acc.writes \cup
                           {[idx |-> local_idx, size |-> Cardinality(DOMAIN acc.depths),
                             x |-> x, y |-> y]}]

\* for (y = y0 ..) for (x = x0 ..): pixel k of the row-major scan of the
\* rectangle [x0, x1] x [y0, y1], then the pixels after it
RECURSIVE RasterScan(_, _, _, _, _, _, _, _, _, _)
RasterScan(tri, k, x0, x1, y0, y1, tile_x0, tile_y0, tile_width_tex, acc) ==
  LET nx == x1 - x0 + 1
      ny == y1 - y0 + 1
      next == RasterPixel(tri, x0 + (k % nx), y0 + (k \div nx),
                          tile_x0, tile_y0, tile_width_tex[1],
                          tile_width_tex[2], acc)
  IN  IF nx <= 0 \/ ny <= 0 \/ k >= nx * ny THEN acc
      ELSE IF next = acc   \* the pixel was skipped
           THEN RasterScan(tri, k + 1, x0, x1, y0, y1, tile_x0, tile_y0,
                           tile_width_tex, acc)
           ELSE RasterScan(tri, k + 1, x0, x1, y0, y1, tile_x0, tile_y0,
                           tile_width_tex, next)

\* Rasterizer::rasterize_triangle_in_tile: the tile buffers after the call,
\* and the local indices it wrote
RasterizeTriangleInTile(tri, tile_x0, tile_y0, tile_x1, tile_y1, tile_colors, tile_depths, tile_width, tex) ==
  LET acc0 == [colors |-> tile_colors, depths |-> tile_depths, writes |-> {}] IN
  IF ~tri.valid THEN acc0
  ELSE IF \/ tri.max_x < tile_x0 \/ tri.min_x > tile_x1
          \/ tri.max_y < tile_y0 \/ tri.min_y > tile_y1 THEN acc0
  ELSE RasterScan(tri, 0,
                  Max2(tri.min_x, tile_x0), ClampX1(tri, tile_x1),
                  Max2(tri.min_y, tile_y0), ClampY1(tri, tile_y1),
                  tile_x0, tile_y0, <<tile_width, tex>>, acc0)

\* ------------------------------------------------- render_tiled: the tiles
TilesX(fbw, T) == (fbw + T - 1) \div T
TilesY(fbh, T) == (fbh + T - 1) \div T
NumTiles(fbw, fbh, T) == TilesX(fbw, T) * TilesY(fbh, T)

TileX0(tile_idx, fbw, T) == (tile_idx % TilesX(fbw, T)) * T
TileY0(tile_idx, fbw, T) == (tile_idx \div TilesX(fbw, T)) * T
\* mutant: the last tile column not clamped to the framebuffer
TileX1_Unclamped(tile_idx, fbw, T) == TileX0(tile_idx, fbw, T) + T - 1
TileX1(tile_idx, fbw, T) == Min2(TileX0(tile_idx, fbw, T) + T - 1, fbw - 1)
TileY1(tile_idx, fbw, fbh, T) == Min2(TileY0(tile_idx, fbw, T) + T - 1, fbh - 1)
TileWidth(tile_idx, fbw, T) == TileX1(tile_idx, fbw, T) - TileX0(tile_idx, fbw, T) + 1
TileHeight(tile_idx, fbw, fbh, T) ==
  TileY1(tile_idx, fbw, fbh, T) - TileY0(tile_idx, fbw, T) + 1

\* mutant: a row stride one short
GlobalIdx_ShortStride(gx, gy, fbw) == gy * (fbw - 1) + gx
\* int global_idx = gy * fb.width + gx
GlobalIdx(gx, gy, fbw) == gy * fbw + gx

\* -------------------------------------------------------- TerminalRenderer
\* Standard output is modelled as the sequence of operations on std::cout:
\* a "write" inserts bytes (control sequences in `bytes`, printable text
\* named by `text`), a "flush" hands what was inserted to the terminal.
\* `by` names the statement group the operation belongs to.
Write(by, bytes, text) == [op |-> "write", by |-> by, bytes |-> bytes, text |-> text]
Flush(by) == [op |-> "flush", by |-> by, bytes |-> <<>>, text |-> ""]

\* the bytes of pat stand at position i of B
HasAt(B, i, pat) ==
  /\ i + Len(pat) - 1 <= Len(B)
  /\ \A k \in 1 .. Len(pat) : B[i + k - 1] = pat[k]

Occurs(pat, B) == \E i \in 1 .. Len(B) : HasAt(B, i, pat)

\* what a sequence of operations on std::cout does to the cursor's
\* visibility: the last show-cursor or hide-cursor escape in it decides
CursorAfter(visible, ops) ==
  LET marks == {k \in 1 .. Len(ops) :
                  \/ HasAt(ops[k].bytes, 1, <<27, 91, 63, 50, 53, 104>>)
                  \/ HasAt(ops[k].bytes, 1, <<27, 91, 63, 50, 53, 108>>)}
      last == CHOOSE k \in marks : \A j \in marks : j <= k
  IN  IF marks = {} THEN visible
      ELSE HasAt(ops[last].bytes, 1, <<27, 91, 63, 50, 53, 104>>)

\* printf's %d of a value >= 0: its decimal digits in ASCII
RECURSIVE Dec(_)
Dec(n) == IF n < 10 THEN <<48 + n>> ELSE Dec(n \div 10) \o <<48 + (n % 10)>>

CursorHome == <<27, 91, 72>>                 \* "\033[H"
ClearScreen == <<27, 91, 50, 74>>            \* "\033[2J"
HideCursor == <<27, 91, 63, 50, 53, 108>>    \* "\033[?25l"
ShowCursor == <<27, 91, 63, 50, 53, 104>>    \* "\033[?25h"
ResetStyle == <<27, 91, 48, 109>>            \* "\033[0m"
EraseLine == <<27, 91, 75>>                  \* "\033[K"
HalfBlock == <<226, 150, 128>>               \* "\xE2\x96\x80"
\* "\033[" << row << ";1H"
CursorTo(row) == <<27, 91>> \o Dec(row) \o <<59, 49, 72>>

\* "\033[38;2;%d;%d;%dm" and "\033[48;2;%d;%d;%dm"
FgEscape(c) ==
  <<27, 91, 51, 56, 59, 50, 59>> \o Dec(c.r) \o <<59>> \o Dec(c.g) \o <<59>>
    \o Dec(c.b) \o <<109>>
BgEscape(c) ==
  <<27, 91, 52, 56, 59, 50, 59>> \o Dec(c.r) \o <<59>> \o Dec(c.g) \o <<59>>
    \o Dec(c.b) \o <<109>>

\* snprintf(buf, sizeof(buf), ...) with char buf[64]: at most 63 characters
Snprintf64(str) == IF Len(str) > 63 THEN SubSeq(str, 1, 63) ELSE str

\* Color top / Color bottom of TerminalRenderer::render
TopPixel(f, x, y) == GetPixel(f, x, y)
\* mutant: the bottom half taken from the same row as the top half
BottomPixel_SameRow(f, x, y) == GetPixel(f, x, y)
BottomPixel(f, x, y) == IF y + 1 < f.height THEN GetPixel(f, x, y + 1) ELSE Color(0, 0, 0)

\* the body of the column loop: what one x appends to `output`
GlyphBytes(f, x, y) ==
  Snprintf64(FgEscape(TopPixel(f, x, y)) \o BgEscape(BottomPixel(f, x, y)))
    \o HalfBlock

\* for (x ...) { ... } output += "\033[0m\n" : columns x, x + 1, ... of row
\* pair y, then the end of the row
RECURSIVE RenderRow(_, _, _)
RenderRow(f, y, x) ==
  IF x >= f.width THEN ResetStyle \o <<10>>
  ELSE GlyphBytes(f, x, y) \o RenderRow(f, y, x + 1)

\* for (int y = 0; y < fb.height; y += 2)
RECURSIVE RenderRows(_, _)
RenderRows(f, y) ==
  IF y >= f.height THEN <<>> ELSE RenderRow(f, y, 0) \o RenderRows(f, y + 2)

\* the string `output` TerminalRenderer::render assembles
RenderOutput(f) == CursorHome \o RenderRows(f, 0)

\* mutant: every row pair written and flushed on its own
PresentOps_PerRow(f) ==
  <<Write("render", CursorHome, ""), Flush("render")>>
    \o [i \in 1 .. 2 * ((f.height + 1) \div 2) |->
          IF i % 2 = 1 THEN Write("render", RenderRow(f, i - 1, 0), "")
                       ELSE Flush("render")]
\* TerminalRenderer::render: std::cout << output << std::flush
PresentOps(f) == <<Write("render", RenderOutput(f), ""), Flush("render")>>

\* TerminalRenderer::init, then main's "Press Ctrl+C to exit..." << std::endl
InitOps ==
  <<Write("init", ClearScreen, ""), Write("init", HideCursor, ""), Flush("init"),
    Write("main", <<>>, "Press Ctrl+C to exit...\n"), Flush("main")>>

\* TerminalRenderer::cleanup
CleanupOps ==
  <<Write("cleanup", ShowCursor, ""), Write("cleanup", ResetStyle, ""),
    Flush("cleanup")>>

\* main: std::cout << "\033[2J" << std::flush after a size change
ResizeClearOps == <<Write("resize", ClearScreen, ""), Flush("resize")>>

\* main, case 'p': the message after a successful save_to_file
ScreenshotOps(screen_height) ==
  <<Write("screenshot", CursorTo(screen_height + 4), ""),
    Write("screenshot", EraseLine, ""),
    Write("screenshot", <<>>, "Saved: screenshot_NNN.png"), Flush("screenshot")>>

\* mutant: the status lines start on the last rendered row
StatusRow_OnRenderedRow(screen_height) == screen_height
\* int status_row = screen_height + 2
StatusRow(screen_height) == screen_height + 2

\* main: the two status lines; the second ends with std::flush
FooterOps(screen_height) ==
  <<Write("footer", CursorTo(StatusRow(screen_height)) \o EraseLine, ""),
    Write("footer", <<>>, "FPS: .. Vertices: .. Res: .. Pos: .."),
    Write("footer", CursorTo(StatusRow(screen_height) + 1) \o EraseLine, ""),
    Write("footer", <<>>, "[WASD] Move  [QE] Up/Down  [IJKL] Look  [R] Reset  [P] Screenshot"),
    Flush("footer")>>

\* ------------------------------------------------------ main: render size
\* mutant: the status rows not reserved
ScreenHeight_NoStatusRows(term_height) == Max2(1, term_height)
\* int screen_height = std::max(1, term_height - STATUS_ROWS)
ScreenHeight(term_height) == Max2(1, term_height - STATUS_ROWS)
\* int pixel_height = screen_height * 2
PixelHeight(screen_height) == screen_height * 2
\* update_projection(w, h): the aspect w / h the perspective matrix is built
\* with, kept as the exact fraction
UpdateProjection(w, h) == [aspect_num |-> w, aspect_den |-> h]

\* ------------------------------------------------------------------ Camera
\* constexpr float CAM_MOVE_SPEED = 0.15f, CAM_ROTATE_SPEED = 0.06f, and the
\* pitch limit 1.4f of rotate_pitch
CAM_MOVE_SPEED == (15 * ONE) \div 100
CAM_ROTATE_SPEED == (6 * ONE) \div 100
PitchLimit == (140 * ONE) \div 100

\* std::sin and std::cos of a grid angle, by their Taylor polynomials (good
\* to a grid unit for the angles |x| <= 1.6 the model follows)
Sin(x) ==
  LET x2 == RDiv(x * x, ONE)
      x3 == RDiv(x * x2, ONE)
  IN  x - RDiv(x3, 6) + RDiv(x3 * x2, 120 * ONE)
Cos(x) ==
  LET x2 == RDiv(x * x, ONE)
      x4 == RDiv(x2 * x2, ONE)
  IN  ONE - RDiv(x2, 2) + RDiv(x4, 24) - RDiv(x4 * x2, 720 * ONE)

\* struct Camera, with its default member values
CameraDefault == [position |-> V3(0, ONE, 3 * ONE), yaw |-> 0, pitch |-> 0]

\* Camera::get_forward, Camera::get_right
GetForward(cam) == V3(-Sin(cam.yaw), 0, -Cos(cam.yaw))
GetRight(cam) == V3(Cos(cam.yaw), 0, -Sin(cam.yaw))

\* HMM_AddV3(position, HMM_MulV3F(dir, amount))
AddScaled(pos, dir, amount) ==
  V3(pos.X + RDiv(dir.X * amount, ONE), pos.Y + RDiv(dir.Y * amount, ONE),
     pos.Z + RDiv(dir.Z * amount, ONE))

\* Camera::move_forward, move_right, move_up
MoveForward(cam, amount) ==
  [cam EXCEPT !.position = AddScaled(cam.position, GetForward(cam), amount)]
MoveRight(cam, amount) ==
  [cam EXCEPT !.position = AddScaled(cam.position, GetRight(cam), amount)]
MoveUp(cam, amount) == [cam EXCEPT !.position.Y = cam.position.Y + amount]

\* Camera::rotate_yaw
RotateYaw(cam, amount) == [cam EXCEPT !.yaw = cam.yaw + amount]

\* mutant: the pitch not clamped
RotatePitch_Unclamped(cam, amount) == [cam EXCEPT !.pitch = cam.pitch + amount]
\* Camera::rotate_pitch
RotatePitch(cam, amount) ==
  [cam EXCEPT !.pitch = Clamp(cam.pitch + amount, -PitchLimit, PitchLimit)]

\* Camera::reset
CameraReset(cam) == CameraDefault

\* the keys that move, turn or reset the camera
CameraKeys ==
  {"w", "W", "s", "S", "a", "A", "d", "D", "q", "Q", "e", "E",
   "j", "J", "l", "L", "i", "I", "k", "K", "r", "R"}

\* the camera cases of main's switch (ch)
HandleKey(cam, ch) ==
  IF ch \in {"w", "W"} THEN MoveForward(cam, CAM_MOVE_SPEED)
  ELSE IF ch \in {"s", "S"} THEN MoveForward(cam, -CAM_MOVE_SPEED)
  ELSE IF ch \in {"a", "A"} THEN MoveRight(cam, -CAM_MOVE_SPEED)
  ELSE IF ch \in {"d", "D"} THEN MoveRight(cam, CAM_MOVE_SPEED)
  ELSE IF ch \in {"q", "Q"} THEN MoveUp(cam, -CAM_MOVE_SPEED)
  ELSE IF ch \in {"e", "E"} THEN MoveUp(cam, CAM_MOVE_SPEED)
  ELSE IF ch \in {"j", "J"} THEN RotateYaw(cam, -CAM_ROTATE_SPEED)
  ELSE IF ch \in {"l", "L"} THEN RotateYaw(cam, CAM_ROTATE_SPEED)
  ELSE IF ch \in {"i", "I"} THEN RotatePitch(cam, CAM_ROTATE_SPEED)
  ELSE IF ch \in {"k", "K"} THEN RotatePitch(cam, -CAM_ROTATE_SPEED)
  ELSE IF ch \in {"r", "R"} THEN CameraReset(cam)
  ELSE cam

\* the camera keys the specification of the whole frame loop reads (the
\* specification of the input loop reads them all)
MainKeys == {"r", "R"}

\* the part of the camera's unbounded state space the model follows: at the
\* starting position every pitch with the yaw within one turn step of its
\* start and every yaw up to MaxYaw with the pitch within one turn step of
\* its start; and positions up to MaxMove away (summed over the axes) with
\* both angles within one turn step
CameraFollowed(cam) ==
  /\ Abs(cam.yaw) <= MaxYaw
  /\ Abs(cam.yaw) <= CAM_ROTATE_SPEED \/ Abs(cam.pitch) <= CAM_ROTATE_SPEED
  /\ \/ cam.position = CameraDefault.position
     \/ /\ Abs(cam.yaw) <= CAM_ROTATE_SPEED /\ Abs(cam.pitch) <= CAM_ROTATE_SPEED
        /\ Abs(cam.position.X - CameraDefault.position.X)
             + Abs(cam.position.Y - CameraDefault.position.Y)
             + Abs(cam.position.Z - CameraDefault.position.Z) <= MaxMove

\* ------------------------------------------------------------------ inputs
\* Clip-space triangles as the geometry stage hands them to prepare_triangle:
\* three clip vertices, three texcoords, three view-space normals.
ClipTri(c1, c2, c3, t1, t2, t3, n) ==
  [clip_verts |-> <<c1, c2, c3>>, texcoords |-> <<t1, t2, t3>>,
   normals |-> <<n, n, n>>]

\* covers the whole screen at depth 0.8
FarTri ==
  ClipTri(V4(-ONE, -ONE, 80, ONE), V4(3 * ONE, -ONE, 80, ONE), V4(-ONE, 3 * ONE, 80, ONE),
          V2(0, 0), V2(2 * ONE, 0), V2(0, 2 * ONE), V3(0, 0, ONE))
\* the same plane and outline as FarTri with other attributes: equal depth
\* at every pixel, another colour
TieTri ==
  ClipTri(V4(-ONE, -ONE, 80, ONE), V4(3 * ONE, -ONE, 80, ONE), V4(-ONE, 3 * ONE, 80, ONE),
          V2(60, 20), V2(60, 20), V2(60, 20), V3(0, ONE, 0))
\* clip w of 1, 1, 4, wound the other way: a wedge from the top edge to
\* below the screen whose depth runs from 0.5 (in front of FarTri) to 1.5
PerspTri ==
  ClipTri(V4(-ONE, ONE, 50, ONE), V4(ONE, ONE, 50, ONE), V4(0, -8 * ONE, 6 * ONE, 4 * ONE),
          V2(0, 0), V2(ONE, 0), V2(0, ONE), V3(60, 0, 80))
\* entirely to the right of the screen
OffscreenTri ==
  ClipTri(V4(2 * ONE, -ONE, 10, ONE), V4(4 * ONE, -ONE, 10, ONE), V4(2 * ONE, ONE, 10, ONE),
          V2(0, 0), V2(ONE, 0), V2(0, ONE), V3(0, 0, ONE))
\* one vertex behind the eye (w = 0)
BehindTri ==
  ClipTri(V4(-ONE, -ONE, 10, ONE), V4(ONE, -ONE, 10, 0), V4(0, ONE, 10, ONE),
          V2(0, 0), V2(ONE, 0), V2(0, ONE), V3(0, 0, ONE))
\* three collinear vertices: zero area
SliverTri ==
  ClipTri(V4(-ONE, -ONE, 10, ONE), V4(0, 0, 10, ONE), V4(ONE, ONE, 10, ONE),
          V2(0, 0), V2(ONE, 0), V2(0, ONE), V3(0, 0, ONE))

ClipTris == {FarTri, TieTri, PerspTri, OffscreenTri, BehindTri, SliverTri}

\* the triangle lists of a frame: up to MaxTris different triangles, in any
\* order
Scenes ==
  UNION {{s \in [1 .. n -> ClipTris] : \A i, j \in 1 .. n : i # j => s[i] # s[j]}
           : n \in 0 .. MaxTris}

\* the tile edges a build is modelled with: a small one that splits the
\* small framebuffers, and the program's
TileSizes == {2, TILE_SIZE}

\* <<framebuffer width, height, tile edge>>: two small framebuffers, and one
\* a pixel wider than the program's tile
Configs ==
  {<<MaxW, MaxH, t>> : t \in TileSizes}
    \cup {<<MaxW - 1, MaxH - 1, t>> : t \in TileSizes}
    \cup {<<TILE_SIZE + 1, 1, TILE_SIZE>>}

Textures == {LoadedTexture}

\* parallel_for's thread count: serial, or MaxWorkers at once
WorkerCounts == {1, MaxWorkers}

\* <<columns, rows>> get_terminal_size can report: fewer rows than
\* STATUS_ROWS + 1 (down to a single row), exactly that many, and more
TermSizes ==
  {<<2, 1>>, <<3, 2>>, <<2, STATUS_ROWS>>, <<2, STATUS_ROWS + 1>>, <<3, STATUS_ROWS + 2>>}

\* the triangle lists the geometry stage of a frame can produce (what the
\* mesh looks like from the camera of that frame)
MainScenes == {<<>>, <<PerspTri>>, <<FarTri, PerspTri>>}

\* pixel colors of the framebuffers given to the encoder alone
Palette == {Color(255, 0, 7), BgColor}
EncSizes == {<<w, h>> : w \in 1 .. MaxEncW, h \in 1 .. MaxEncH}

\* the textures and coordinates given to Texture::sample on its own
SampleTextures ==
  {TextureOf(1, 1), TextureOf(2, 3), TextureOf(3, 2), TextureOf(5, 4), UnloadedTexture}
Floats == {n \in (-MaxUV * FUnit) .. (MaxUV * FUnit) : RoundTo(n, 1) = n}

\* ------------------------------------------------------------------- state
VARIABLES
  fb,                \* the Framebuffer: width, height, color_buffer, depth_buffer
  texture,           \* the Texture the rasterizer borrows
  tile_size,         \* the tile edge of this build
  screen_triangles,  \* std::vector<ScreenTriangle> of the frame
  num_workers,       \* threads parallel_for runs at once
  tile_pc,           \* tile index -> "idle", "local", "done": the lambda's position
  tile_colors,       \* tile index -> its tile_colors vector
  tile_depths,       \* tile index -> its tile_depths vector
  writes,            \* every vector element written so far in the frame
  pc,                \* main's position in the frame loop
  term_width, term_height,   \* the terminal size main remembers
  screen_width, screen_height, pixel_height,
  projection,        \* the perspective projection (its aspect)
  out,               \* the operations on std::cout since the frame began
  frame,             \* frames begun
  last_query,        \* what get_terminal_size returned most recently
  size_changed,      \* whether that differed from the query before it
  keys_read,         \* keys read in this frame's input loop
  screenshot_count,  \* static int screenshot_count
  exited,            \* the process has ended
  cursor_visible,    \* the terminal shows its cursor
  camera,            \* struct Camera
  sample_u, sample_v,  \* the arguments of the latest Texture::sample call
  sampled,           \* what that call, and the calls one period on, returned
  mesh,              \* the frame's triangles in clip space (mesh through the MVP)
  geo_pc,            \* triangle index -> "idle", "done": the geometry lambda's position
  slot_writes,       \* which geometry index has written which screen_triangles slot
  presented,         \* calls of TerminalRenderer::render that have returned
  fb_before          \* the framebuffer as render_tiled found it, until it is presented

rasterVars == <<texture, tile_size, screen_triangles, num_workers,
                tile_pc, tile_colors, tile_depths, writes>>
sizeVars == <<term_width, term_height, screen_width, screen_height, pixel_height,
              projection, last_query, size_changed>>
loopVars == <<out, frame, keys_read, screenshot_count>>
exitVars == <<exited, cursor_visible>>
camVars == <<camera>>
sampleVars == <<sample_u, sample_v, sampled>>
stageVars == <<mesh, geo_pc, slot_writes, presented, fb_before>>
vars == <<fb, rasterVars, pc, sizeVars, loopVars, exitVars, camVars, sampleVars, stageVars>>

\* no Texture::sample call on its own has been made
NoSample == sample_u = 0 /\ sample_v = 0 /\ sampled = <<>>

\* no frame has begun
NoStage ==
  /\ mesh = <<>> /\ geo_pc = <<>> /\ slot_writes = {}
  /\ presented = 0 /\ fb_before = <<>>

Tiles == 0 .. (NumTiles(fb.width, fb.height, tile_size) - 1)

\* main's geometry stage for a whole triangle list
PrepareAll(scene, fbw, fbh) ==
  [i \in 1 .. Len(scene) |->
     PrepareTriangle(scene[i].clip_verts, scene[i].texcoords, scene[i].normals,
                     fbw, fbh)]

Init ==
  \E cfg \in Configs, scene \in Scenes, tex \in Textures, nw \in WorkerCounts :
    /\ fb = FramebufferNew(cfg[1], cfg[2])
    /\ texture = tex
    /\ tile_size = cfg[3]
    /\ screen_triangles = PrepareAll(scene, cfg[1], cfg[2])
    /\ num_workers = nw
    /\ tile_pc = [t \in 0 .. (NumTiles(cfg[1], cfg[2], cfg[3]) - 1) |-> "idle"]
    /\ tile_colors = [t \in 0 .. (NumTiles(cfg[1], cfg[2], cfg[3]) - 1) |-> <<>>]
    /\ tile_depths = [t \in 0 .. (NumTiles(cfg[1], cfg[2], cfg[3]) - 1) |-> <<>>]
    /\ writes = {}
    /\ pc = "raster"
    /\ term_width = cfg[1] /\ term_height = 0
    /\ screen_width = cfg[1] /\ screen_height = 0 /\ pixel_height = cfg[2]
    /\ projection = UpdateProjection(cfg[1], cfg[2])
    /\ out = <<>> /\ frame = 1 /\ keys_read = 0 /\ screenshot_count = 0
    /\ last_query = <<cfg[1], 0>> /\ size_changed = FALSE
    /\ exited = FALSE /\ cursor_visible = FALSE
    /\ camera = CameraDefault /\ NoSample /\ NoStage

\* ------------------------------------------- render_tiled: one tile's lambda
\* mutant: the tile's colors value-initialised, without the fill value
TileColorsInit_Default(size) == [i \in 0 .. (size - 1) |-> Black]
\* std::vector<Color> tile_colors(tile_size, Color(20, 20, 30))
TileColorsInit(size) == [i \in 0 .. (size - 1) |-> BgColor]
\* std::vector<float> tile_depths(tile_size, std::numeric_limits<float>::max())
TileDepthsInit(size) == [i \in 0 .. (size - 1) |-> FLT_MAX]

\* the triangle loop of tile t from triangle i on: acc is the tile's
\* [colors, depths] and the writes made so far, each with its triangle
RECURSIVE TileLoop(_, _, _, _, _, _, _, _)
TileLoop(tris, i, t, fbw, fbh, T, tex, acc) ==
  IF i > Len(tris) THEN acc
  ELSE LET r == RasterizeTriangleInTile(
                  tris[i], TileX0(t, fbw, T), TileY0(t, fbw, T),
                  TileX1(t, fbw, T), TileY1(t, fbw, fbh, T),
                  acc.colors, acc.depths, TileWidth(t, fbw, T), tex)
       IN  IF r.writes = {}   \* the triangle wrote nothing
           THEN TileLoop(tris, i + 1, t, fbw, fbh, T, tex, acc)
           ELSE TileLoop(tris, i + 1, t, fbw, fbh, T, tex,
                         [colors |-> r.colors, depths |-> r.depths,
                          writes |-> acc.writes \cup
                            {[kind |-> "tile", tile |-> t, tri |-> i, idx |-> w.idx,
                              size |-> w.size, x |-> w.x, y |-> w.y] : w \in r.writes}])

\* the lambda of render_tiled up to its blit: the tile rectangle, the two
\* local vectors, and rasterize_triangle_in_tile for every triangle
TileLocal(tris, t, fbw, fbh, T, tex) ==
  LET size == TileWidth(t, fbw, T) * TileHeight(t, fbw, fbh, T)
  IN  TileLoop(tris, 1, t, fbw, fbh, T, tex,
               [colors |-> TileColorsInit(size), depths |-> TileDepthsInit(size),
                writes |-> {}])

\* parallelutil::parallel_for(n, f): every index is run once, by one of
\* num_workers threads, and the call returns when all have finished.  One
\* thread runs the indices in increasing order; several threads may take
\* them in any order.  busy is the set of indices a thread is running.
MayStart(t, idle, busy, finished, nw) ==
  /\ t \in idle
  /\ Cardinality(busy) < nw
  /\ nw = 1 => \A u \in idle : t <= u

\* a free thread takes tile index t and runs the lambda up to the blit;
\* everything it writes is local to the lambda
TileRasterize(t) ==
  /\ ~exited
  /\ UNCHANGED <<exitVars, camVars, sampleVars, stageVars>>
  /\ pc = "raster"
  /\ MayStart(t, {u \in Tiles : tile_pc[u] = "idle"},
              {u \in Tiles : tile_pc[u] = "local"},
              {u \in Tiles : tile_pc[u] = "done"}, num_workers)
  /\ LET r == TileLocal(screen_triangles, t, fb.width, fb.height, tile_size, texture)
     IN  /\ tile_colors' = [tile_colors EXCEPT ![t] = r.colors]
         /\ tile_depths' = [tile_depths EXCEPT ![t] = r.depths]
         /\ writes' = writes \cup r.writes
  /\ tile_pc' = [tile_pc EXCEPT ![t] = "local"]
  /\ UNCHANGED <<fb, texture, tile_size, screen_triangles, num_workers>>
  /\ UNCHANGED <<pc, sizeVars, loopVars>>

\* the <<lx, ly>> the blit loops of tile t visit
BlitCells(t, fbw, fbh, T) ==
  {<<lx, ly>> : lx \in 0 .. (TileWidth(t, fbw, T) - 1),
                ly \in 0 .. (TileHeight(t, fbw, fbh, T) - 1)}

\* the blit's loop positions k = ly * tile_width + lx (also the local index)
\* that write framebuffer element g
BlitHits(t, fbw, fbh, T, g) ==
  {k \in 0 .. (TileWidth(t, fbw, T) * TileHeight(t, fbw, fbh, T) - 1) :
     GlobalIdx(TileX0(t, fbw, T) + (k % TileWidth(t, fbw, T)),
               TileY0(t, fbw, T) + (k \div TileWidth(t, fbw, T)), fbw) = g}

SetMax(S) == CHOOSE m \in S : \A n \in S : n <= m

\* one framebuffer vector after the blit loops of tile t: an element takes
\* the value of the last loop position that writes it
BlitBuffer(buffer, t, fbw, fbh, T, local) ==
  [g \in DOMAIN buffer |->
     LET hits == BlitHits(t, fbw, fbh, T, g)
     IN  IF hits = {} THEN buffer[g] ELSE local[SetMax(hits)]]

\* mutant: the blit copies only the elements a triangle has written
BlitInto_WrittenOnly(f, t, T, colors, depths) ==
  LET from(g) == SetMax(BlitHits(t, f.width, f.height, T, g))
      keep(g) == BlitHits(t, f.width, f.height, T, g) = {} \/ depths[from(g)] = FLT_MAX
  IN  [f EXCEPT !.color_buffer = [g \in DOMAIN f.color_buffer |->
                                    IF keep(g) THEN f.color_buffer[g] ELSE colors[from(g)]],
                !.depth_buffer = [g \in DOMAIN f.depth_buffer |->
                                    IF keep(g) THEN f.depth_buffer[g] ELSE depths[from(g)]]]

\* the framebuffer after the blit of tile t
BlitInto(f, t, T, colors, depths) ==
  [f EXCEPT !.color_buffer = BlitBuffer(f.color_buffer, t, f.width, f.height, T, colors),
            !.depth_buffer = BlitBuffer(f.depth_buffer, t, f.width, f.height, T, depths)]

\* the copy of the tile's vectors into the framebuffer, after which the
\* lambda returns and its vectors are destroyed
TileBlit(t) ==
  /\ ~exited
  /\ UNCHANGED <<exitVars, camVars, sampleVars, stageVars>>
  /\ pc = "raster"
  /\ tile_pc[t] = "local"
  /\ fb' = BlitInto(fb, t, tile_size, tile_colors[t], tile_depths[t])
  /\ writes' = writes \cup
       {[kind |-> "blit", tile |-> t, tri |-> 0,
         idx |-> GlobalIdx(TileX0(t, fb.width, tile_size) + c[1],
                           TileY0(t, fb.width, tile_size) + c[2], fb.width),
         size |-> fb.width * fb.height,
         x |-> TileX0(t, fb.width, tile_size) + c[1],
         y |-> TileY0(t, fb.width, tile_size) + c[2]]
          : c \in BlitCells(t, fb.width, fb.height, tile_size)}
  /\ tile_pc' = [tile_pc EXCEPT ![t] = "done"]
  /\ tile_colors' = [tile_colors EXCEPT ![t] = <<>>]
  /\ tile_depths' = [tile_depths EXCEPT ![t] = <<>>]
  /\ UNCHANGED <<texture, tile_size, screen_triangles, num_workers>>
  /\ UNCHANGED <<pc, sizeVars, loopVars>>

\* parallel_for has joined: render_tiled returns
AllDone == \A t \in Tiles : tile_pc[t] = "done"

Next ==
  \/ \E t \in Tiles : TileRasterize(t)
  \/ \E t \in Tiles : TileBlit(t)

Spec == Init /\ [][Next]_vars

\* --------------------------------------------------- main: the frame loop
\* main up to `while (true)`: the first get_terminal_size, the Framebuffer,
\* the Rasterizer, the first projection, TerminalRenderer::init
InitMain ==
  \E sz \in TermSizes, T \in TileSizes :
    /\ term_width = sz[1] /\ term_height = sz[2]
    /\ screen_width = sz[1]
    /\ screen_height = ScreenHeight(sz[2])
    /\ pixel_height = PixelHeight(ScreenHeight(sz[2]))
    /\ fb = FramebufferNew(sz[1], PixelHeight(ScreenHeight(sz[2])))
    /\ projection = UpdateProjection(sz[1], PixelHeight(ScreenHeight(sz[2])))
    /\ texture = LoadedTexture
    /\ tile_size = T
    /\ num_workers = MaxWorkers
    /\ screen_triangles = <<>>
    /\ tile_pc = <<>> /\ tile_colors = <<>> /\ tile_depths = <<>>
    /\ writes = {}
    /\ pc = "poll"
    /\ out = InitOps
    /\ frame = 0 /\ keys_read = 0 /\ screenshot_count = 0
    /\ last_query = sz /\ size_changed = FALSE
    /\ exited = FALSE
    /\ cursor_visible = CursorAfter(TRUE, InitOps)
    /\ camera = CameraDefault /\ NoSample /\ NoStage

\* the top of the loop body: get_terminal_size, and on a change the new
\* render size, fb.resize, the new projection and the screen clear.  `out`
\* starts again with each frame.
PollSize ==
  /\ ~exited
  /\ UNCHANGED <<exited, camVars, sampleVars, stageVars>>
  /\ pc = "poll"
  /\ frame < MaxFrames
  /\ \E sz \in TermSizes :
       /\ last_query' = sz
       /\ size_changed' = (sz # last_query)
       /\ IF sz[1] # term_width \/ sz[2] # term_height
          THEN /\ term_width' = sz[1]
               /\ term_height' = sz[2]
               /\ screen_width' = sz[1]
               /\ screen_height' = ScreenHeight(sz[2])
               /\ pixel_height' = PixelHeight(ScreenHeight(sz[2]))
               /\ fb' = FbResize(fb, sz[1], PixelHeight(ScreenHeight(sz[2])))
               /\ projection' = UpdateProjection(sz[1], PixelHeight(ScreenHeight(sz[2])))
               /\ out' = ResizeClearOps
          ELSE /\ UNCHANGED <<term_width, term_height, screen_width, screen_height,
                              pixel_height, fb, projection>>
               /\ out' = <<>>
  /\ frame' = frame + 1
  /\ pc' = "geometry"
  /\ UNCHANGED <<rasterVars, keys_read, screenshot_count>>
  /\ cursor_visible' = CursorAfter(cursor_visible, out')

\* std::vector<ScreenTriangle> screen_triangles(num_triangles): every slot
\* value-initialised
DefaultScreenTriangle ==
  [screen_verts |-> <<V3(0, 0, 0), V3(0, 0, 0), V3(0, 0, 0)>>,
   clip_verts |-> <<V4(0, 0, 0, 0), V4(0, 0, 0, 0), V4(0, 0, 0, 0)>>,
   texcoords |-> <<V2(0, 0), V2(0, 0), V2(0, 0)>>,
   normals |-> <<V3(0, 0, 0), V3(0, 0, 0), V3(0, 0, 0)>>,
   area |-> 0, min_x |-> 0, max_x |-> 0, min_y |-> 0, max_y |-> 0,
   valid |-> FALSE]

\* mutant: every geometry lambda stores into the first slot
Slot_First(tri_idx) == 1
\* screen_triangles[tri_idx] = ...: the slot the lambda of tri_idx stores into
Slot(tri_idx) == tri_idx

\* the geometry stage begins: the frame's MVP, the vector of num_triangles
\* slots, and parallel_for over the triangle indices
GeometryBegin ==
  /\ ~exited
  /\ UNCHANGED <<exitVars, camVars, sampleVars>>
  /\ pc = "geometry"
  /\ \E scene \in MainScenes :
       /\ mesh' = scene
       /\ screen_triangles' = [i \in 1 .. Len(scene) |-> DefaultScreenTriangle]
       /\ geo_pc' = [i \in 1 .. Len(scene) |-> "idle"]
  /\ slot_writes' = {}
  /\ pc' = "transform"
  /\ UNCHANGED <<fb, texture, tile_size, num_workers, tile_pc, tile_colors,
                 tile_depths, writes, sizeVars, loopVars, presented, fb_before>>

\* the geometry lambda for one triangle index: the three vertices through
\* the matrices, prepare_triangle, and the store into the triangle's slot
GeoPrepare(tri_idx) ==
  /\ ~exited
  /\ UNCHANGED <<exitVars, camVars, sampleVars>>
  /\ pc = "transform"
  /\ MayStart(tri_idx, {i \in DOMAIN geo_pc : geo_pc[i] = "idle"}, {},
              {i \in DOMAIN geo_pc : geo_pc[i] = "done"}, num_workers)
  /\ screen_triangles' =
       [screen_triangles EXCEPT ![Slot(tri_idx)] =
          PrepareTriangle(mesh[tri_idx].clip_verts, mesh[tri_idx].texcoords,
                          mesh[tri_idx].normals, fb.width, fb.height)]
  /\ geo_pc' = [geo_pc EXCEPT ![tri_idx] = "done"]
  /\ slot_writes' = slot_writes \cup {[by |-> tri_idx, slot |-> Slot(tri_idx)]}
  /\ UNCHANGED <<fb, texture, tile_size, num_workers, tile_pc, tile_colors,
                 tile_depths, writes, pc, sizeVars, loopVars, mesh, presented,
                 fb_before>>

\* the geometry parallel_for has joined
GeometryDone == \A i \in DOMAIN geo_pc : geo_pc[i] = "done"

\* parallel_for returns and render_tiled starts its own parallel_for over
\* the tiles
GeometryJoin ==
  /\ ~exited
  /\ UNCHANGED <<exitVars, camVars, sampleVars>>
  /\ pc = "transform"
  /\ GeometryDone
  /\ tile_pc' = [t \in Tiles |-> "idle"]
  /\ tile_colors' = [t \in Tiles |-> <<>>]
  /\ tile_depths' = [t \in Tiles |-> <<>>]
  /\ writes' = {}
  /\ fb_before' = fb
  /\ pc' = "raster"
  /\ UNCHANGED <<fb, texture, tile_size, num_workers, screen_triangles, sizeVars,
                 loopVars, mesh, geo_pc, slot_writes, presented>>

\* render_tiled returns: its parallel_for has joined
RasterJoin ==
  /\ ~exited
  /\ UNCHANGED <<exitVars, camVars, sampleVars, stageVars>>
  /\ pc = "raster"
  /\ AllDone
  /\ pc' = "present"
  /\ UNCHANGED <<fb, rasterVars, sizeVars, loopVars>>

\* TerminalRenderer::render(fb)
Present ==
  /\ ~exited
  /\ UNCHANGED <<exited, camVars, sampleVars, mesh, geo_pc, slot_writes>>
  /\ pc = "present"
  /\ presented' = presented + 1
  /\ fb_before' = <<>>
  /\ out' = out \o PresentOps(fb)
  /\ pc' = "input"
  /\ UNCHANGED <<fb, rasterVars, sizeVars, frame, keys_read, screenshot_count>>
  /\ cursor_visible' = CursorAfter(cursor_visible, out')

\* the input loop reads 'p' or 'P': save_to_file, which may fail, and on
\* success the message below the footer
KeyScreenshot ==
  /\ ~exited
  /\ UNCHANGED <<exited, camera, sampleVars, stageVars>>
  /\ pc = "input"
  /\ keys_read < MaxKeys
  /\ \E saved \in BOOLEAN :
       out' = IF saved THEN out \o ScreenshotOps(screen_height) ELSE out
  /\ screenshot_count' = screenshot_count + 1
  /\ keys_read' = keys_read + 1
  /\ UNCHANGED <<fb, rasterVars, pc, sizeVars, frame>>
  /\ cursor_visible' = CursorAfter(cursor_visible, out')

\* the input loop reads a camera key: one case of the switch
CameraKeyStep(ch) ==
  /\ ~exited
  /\ pc = "input"
  /\ CameraFollowed(HandleKey(camera, ch))
  /\ camera' = HandleKey(camera, ch)
  /\ UNCHANGED <<fb, rasterVars, pc, sizeVars, out, frame, screenshot_count, exitVars, sampleVars, stageVars>>

KeyCamera(ch) ==
  /\ keys_read < MaxKeys
  /\ keys_read' = keys_read + 1
  /\ CameraKeyStep(ch)

\* the input loop reads a key the switch has no case for: nothing happens
KeyOther ==
  /\ ~exited
  /\ pc = "input"
  /\ keys_read < MaxKeys
  /\ keys_read' = keys_read + 1
  /\ UNCHANGED <<fb, rasterVars, pc, sizeVars, out, frame, screenshot_count, exitVars, camera, sampleVars, stageVars>>

\* keyboard_hit() is false: the status footer, and back to the loop top
Footer ==
  /\ ~exited
  /\ UNCHANGED <<exited, camVars, sampleVars, stageVars>>
  /\ pc = "input"
  /\ out' = out \o FooterOps(screen_height)
  /\ keys_read' = 0
  /\ pc' = "poll"
  /\ UNCHANGED <<fb, rasterVars, sizeVars, frame, screenshot_count>>
  /\ cursor_visible' = CursorAfter(cursor_visible, out')

\* the user ends the process during the frame loop (Ctrl+C: SIGINT, for
\* which main installs no handler).  `while (true)` has no exit, so the
\* TerminalRenderer::cleanup() after it is never reached.
Terminate ==
  /\ ~exited
  /\ exited' = TRUE
  /\ UNCHANGED <<fb, rasterVars, pc, sizeVars, loopVars, cursor_visible, camVars, sampleVars, stageVars>>

NextMain ==
  \/ Terminate
  \/ PollSize
  \/ GeometryBegin
  \/ \E i \in DOMAIN geo_pc : GeoPrepare(i)
  \/ GeometryJoin
  \/ \E t \in Tiles : TileRasterize(t)
  \/ \E t \in Tiles : TileBlit(t)
  \/ RasterJoin
  \/ Present
  \/ KeyScreenshot
  \/ \E ch \in MainKeys : KeyCamera(ch)
  \/ KeyOther
  \/ Footer

SpecMain == InitMain /\ [][NextMain]_vars

\* --------------------------------------------- the input loop on its own
\* the input loop of a frame on a 2 x (STATUS_ROWS + 1) terminal that showed
\* no triangle, with the camera as constructed
InitCamera ==
  /\ term_width = 2 /\ term_height = STATUS_ROWS + 1
  /\ screen_width = 2 /\ screen_height = ScreenHeight(STATUS_ROWS + 1)
  /\ pixel_height = PixelHeight(ScreenHeight(STATUS_ROWS + 1))
  /\ fb = FramebufferNew(2, PixelHeight(ScreenHeight(STATUS_ROWS + 1)))
  /\ projection = UpdateProjection(2, PixelHeight(ScreenHeight(STATUS_ROWS + 1)))
  /\ texture = LoadedTexture
  /\ tile_size = TILE_SIZE
  /\ num_workers = MaxWorkers
  /\ screen_triangles = <<>>
  /\ tile_pc = [t \in {0} |-> "done"]
  /\ tile_colors = [t \in {0} |-> <<>>]
  /\ tile_depths = [t \in {0} |-> <<>>]
  /\ writes = {}
  /\ pc = "input"
  /\ out = PresentOps(FramebufferNew(2, PixelHeight(ScreenHeight(STATUS_ROWS + 1))))
  /\ frame = 1 /\ keys_read = 0 /\ screenshot_count = 0
  /\ last_query = <<2, STATUS_ROWS + 1>> /\ size_changed = FALSE
  /\ exited = FALSE /\ cursor_visible = FALSE
  /\ camera = CameraDefault /\ NoSample /\ NoStage

\* any number of camera keys; the screenshot key as often as a frame reads it
NextCamera ==
  \/ \E ch \in CameraKeys : keys_read' = keys_read /\ CameraKeyStep(ch)
  \/ KeyScreenshot

SpecCamera == InitCamera /\ [][NextCamera]_vars

\* ------------------------------------- TerminalRenderer::render on its own
\* any small framebuffer of palette colors, about to be presented
InitEncode ==
  \E sz \in EncSizes :
    \E colors \in [0 .. (sz[1] * sz[2] - 1) -> Palette] :
      /\ fb = [width |-> sz[1], height |-> sz[2], color_buffer |-> colors,
               depth_buffer |-> [i \in 0 .. (sz[1] * sz[2] - 1) |-> FLT_MAX]]
      /\ texture = UnloadedTexture
      /\ tile_size = TILE_SIZE
      /\ num_workers = 1
      /\ screen_triangles = <<>>
      /\ tile_pc = <<>> /\ tile_colors = <<>> /\ tile_depths = <<>>
      /\ writes = {}
      /\ pc = "present"
      /\ term_width = sz[1] /\ term_height = 0
      /\ screen_width = sz[1] /\ screen_height = 0 /\ pixel_height = sz[2]
      /\ projection = UpdateProjection(sz[1], sz[2])
      /\ out = <<>> /\ frame = 1 /\ keys_read = 0 /\ screenshot_count = 0
      /\ last_query = <<sz[1], 0>> /\ size_changed = FALSE
      /\ exited = FALSE /\ cursor_visible = FALSE
      /\ camera = CameraDefault /\ NoSample /\ NoStage

NextEncode == Present

SpecEncode == InitEncode /\ [][NextEncode]_vars

\* ------------------------------------------------- Texture::sample on its own
\* any of the textures, before a call
InitSample ==
  \E tex \in SampleTextures :
    /\ fb = FramebufferNew(1, 2)
    /\ texture = tex
    /\ tile_size = TILE_SIZE
    /\ num_workers = 1
    /\ screen_triangles = <<>>
    /\ tile_pc = <<>> /\ tile_colors = <<>> /\ tile_depths = <<>>
    /\ writes = {}
    /\ pc = "sample"
    /\ term_width = 1 /\ term_height = 0
    /\ screen_width = 1 /\ screen_height = 0 /\ pixel_height = 2
    /\ projection = UpdateProjection(1, 2)
    /\ out = <<>> /\ frame = 1 /\ keys_read = 0 /\ screenshot_count = 0
    /\ last_query = <<1, 0>> /\ size_changed = FALSE
    /\ exited = FALSE /\ cursor_visible = FALSE
    /\ camera = CameraDefault /\ NoSample /\ NoStage

\* what one call reads and returns
SampleResult(tex, u, v) ==
  [x |-> IF tex.loaded THEN TexelX(tex, u) ELSE 0,
   y |-> IF tex.loaded THEN TexelY(tex, v) ELSE 0,
   color |-> SampleFloat(tex, u, v)]

\* sample(u, v), sample(u + 1, v) and sample(u, v + 1) for floats u and v; the
\* sums are float additions
SampleCall(u, v) ==
  /\ pc = "sample"
  /\ sampled = <<>>
  /\ sample_u' = u
  /\ sample_v' = v
  /\ sampled' = [at |-> SampleResult(texture, u, v),
                 right |-> SampleResult(texture, FAdd(u, FUnit), v),
                 up |-> SampleResult(texture, u, FAdd(v, FUnit))]
  /\ UNCHANGED <<fb, rasterVars, pc, sizeVars, loopVars, exitVars, camVars, stageVars>>

NextSample == sampled = <<>> /\ \E u \in Floats, v \in Floats : SampleCall(u, v)

SpecSample == InitSample /\ [][NextSample]_vars

\* ------------------------------------------ render_tiled run by one thread
\* the whole lambda for tile t: the framebuffer after its blit
RenderTile(f, tris, t, T, tex) ==
  LET acc == TileLocal(tris, t, f.width, f.height, T, tex)
  IN  BlitInto(f, t, T, acc.colors, acc.depths)

\* tiles t, t + 1, ... one after another
RECURSIVE SerialTiles(_, _, _, _, _)
SerialTiles(f, tris, t, T, tex) ==
  IF t >= NumTiles(f.width, f.height, T) THEN f
  ELSE LET g == RenderTile(f, tris, t, T, tex)
       IN  IF g = f THEN SerialTiles(f, tris, t + 1, T, tex)
                    ELSE SerialTiles(g, tris, t + 1, T, tex)

\* Rasterizer::render_tiled when parallel_for runs every index on one
\* thread, in index order
SerialRender(f, tris, T, tex) == SerialTiles(f, tris, 0, T, tex)

\* ===================================================== properties: rendering
Pixels == {<<x, y>> : x \in 0 .. (fb.width - 1), y \in 0 .. (fb.height - 1)}
NumPixels == fb.width * fb.height

\* the interpolated depth of triangle i at the centre of pixel (x, y)
DepthAt(i, x, y) ==
  FragDepth(screen_triangles[i],
            Barycentric(screen_triangles[i], EdgeWeights(screen_triangles[i], x, y)))

\* the shaded colour of triangle i at the centre of pixel (x, y)
ColorAt(i, x, y) ==
  Shade(screen_triangles[i],
        Barycentric(screen_triangles[i], EdgeWeights(screen_triangles[i], x, y)),
        texture)

\* the triangles of the list that have a fragment at pixel (x, y): valid,
\* containing the pixel centre, with depth in [-1, 1]
Covering(x, y) ==
  {i \in 1 .. Len(screen_triangles) :
     /\ screen_triangles[i].valid
     /\ Inside(EdgeWeights(screen_triangles[i], x, y))
     /\ ~DepthOutOfRange(DepthAt(i, x, y))}

\* the fragments at pixel (x, y): covering triangle -> its depth there
Fragments(x, y) == [i \in Covering(x, y) |-> DepthAt(i, x, y)]

\* the smallest depth among the fragments fr (a non-empty function)
MinDepth(fr) ==
  CHOOSE d \in {fr[i] : i \in DOMAIN fr} : \A j \in DOMAIN fr : d <= fr[j]

DistinctDepths(fr) == \A i, j \in DOMAIN fr : i # j => fr[i] # fr[j]

StoredDepth(x, y) == fb.depth_buffer[y * fb.width + x]
StoredColor(x, y) == fb.color_buffer[y * fb.width + x]

TileWrites == {w \in writes : w.kind = "tile"}
BlitWrites == {w \in writes : w.kind = "blit"}

\* C1: once every tile worker has finished, the framebuffer (color and
\* depth) is the one the serial execution of render_tiled produces from the
\* same triangle list, texture and size, whatever the number of workers and
\* the interleaving of the tile workers was.
C1_RenderDeterministic ==
  AllDone => fb = SerialRender(FbClear(fb), screen_triangles, tile_size, texture)

\* a frame finished by two workers over several tiles, with a triangle drawn
C1_Witness ==
  /\ AllDone
  /\ num_workers > 1
  /\ Cardinality(Tiles) > 2
  /\ \E w \in TileWrites : w.tile > 0

\* C2: after render_tiled, at every pixel covered by at least one valid
\* triangle with depth in [-1, 1], the stored depth is the minimum
\* interpolated depth over those triangles.
C2_DepthIsMinimum ==
  AllDone =>
    \A p \in Pixels :
      LET fr == Fragments(p[1], p[2])
      IN  DOMAIN fr # {} => StoredDepth(p[1], p[2]) = MinDepth(fr)

\* a finished frame with a pixel where a later triangle of the list is
\* nearer than an earlier one
C2_Witness ==
  /\ AllDone
  /\ \E p \in Pixels :
       LET fr == Fragments(p[1], p[2])
       IN  \E i, j \in DOMAIN fr :
             i < j /\ fr[j] < fr[i] /\ StoredDepth(p[1], p[2]) = fr[j]

\* C3: every write of render_tiled is in bounds: a tile-local write index
\* lies inside the tile's vector, a blit index inside the framebuffer's, and
\* the pixel written lies in [0, W) x [0, H).
C3_WritesInBounds ==
  \A w \in writes :
    /\ 0 <= w.idx /\ w.idx < w.size
    /\ 0 <= w.x /\ w.x < fb.width
    /\ 0 <= w.y /\ w.y < fb.height

\* a triangle that reaches beyond the screen has been rasterized into a tile
\* at the right and bottom edge of the framebuffer
C3_Witness ==
  \E w \in TileWrites :
    /\ w.x = fb.width - 1 /\ w.y = fb.height - 1
    /\ CeilInt(Max3(screen_triangles[w.tri].screen_verts[1].X,
                    screen_triangles[w.tri].screen_verts[2].X,
                    screen_triangles[w.tri].screen_verts[3].X)) > fb.width
    /\ \E u \in BlitWrites : TRUE

\* ceil(a / b), from its definition
CeilDiv(a, b) == CHOOSE k \in 0 .. a : k * b >= a /\ (k - 1) * b < a

\* the pixels of tile t's rectangle
TileRect(t) ==
  {<<x, y>> : x \in TileX0(t, fb.width, tile_size) .. TileX1(t, fb.width, tile_size),
              y \in TileY0(t, fb.width, tile_size) ..
                    TileY1(t, fb.width, fb.height, tile_size)}

\* C4: there are ceil(W/T) * ceil(H/T) tiles, their rectangles are pairwise
\* disjoint and together cover the framebuffer; no framebuffer cell is ever
\* written by two workers (or twice), and when the frame is finished every
\* cell has been written by exactly one.
C4_TilesPartition ==
  /\ Cardinality(Tiles) = CeilDiv(fb.width, tile_size) * CeilDiv(fb.height, tile_size)
  /\ \A t, u \in Tiles : t # u => TileRect(t) \cap TileRect(u) = {}
  /\ UNION {TileRect(t) : t \in Tiles} = Pixels
  /\ \A w, v \in BlitWrites : w.idx = v.idx => w = v
  /\ \A w \in BlitWrites : tile_pc[w.tile] = "done" /\ <<w.x, w.y>> \in TileRect(w.tile)
  /\ AllDone => \A g \in 0 .. (NumPixels - 1) : \E w \in BlitWrites : w.idx = g

\* a finished frame on a framebuffer the tile edge divides in neither
\* direction
C4_Witness ==
  /\ AllDone
  /\ fb.width % tile_size # 0
  /\ fb.height % tile_size # 0
  /\ Cardinality(Tiles) = 4

\* C5: the finished framebuffer equals the framebuffer render_tiled produces
\* with any other tile edge.
C5_TileSizeInvariant ==
  AllDone =>
    \A T2 \in TileSizes \cup {3} :
      fb = SerialRender(FbClear(fb), screen_triangles, T2, texture)

\* a finished frame of several tiles, one of them partial, with a triangle
\* drawn across tiles
C5_Witness ==
  /\ AllDone
  /\ fb.width % tile_size # 0
  /\ \E w, v \in TileWrites : w.tile # v.tile /\ w.tri = v.tri

Perms(n) == {q \in [1 .. n -> 1 .. n] : \A i, j \in 1 .. n : i # j => q[i] # q[j]}
Permuted(tris, q) == [i \in 1 .. Len(tris) |-> tris[q[i]]]

\* C6: at every covered pixel the stored color is the shaded color of a
\* fragment of smallest depth; and at a pixel whose fragments have pairwise
\* distinct depths, every permutation of the triangle list gives the same
\* color and depth.
C6_NearestFragmentWins ==
  AllDone =>
    /\ \A p \in Pixels :
         LET fr == Fragments(p[1], p[2])
         IN  DOMAIN fr # {} =>
               \E i \in DOMAIN fr :
                 /\ fr[i] = MinDepth(fr)
                 /\ StoredDepth(p[1], p[2]) = fr[i]
                 /\ StoredColor(p[1], p[2]) = ColorAt(i, p[1], p[2])
    /\ LET distinct == {p \in Pixels : DistinctDepths(Fragments(p[1], p[2]))}
       IN  \A q \in Perms(Len(screen_triangles)) :
             LET other == SerialRender(FbClear(fb), Permuted(screen_triangles, q),
                                       tile_size, texture)
             IN  \A p \in distinct :
                   /\ other.color_buffer[p[2] * fb.width + p[1]] = StoredColor(p[1], p[2])
                   /\ other.depth_buffer[p[2] * fb.width + p[1]] = StoredDepth(p[1], p[2])

\* a finished frame with a pixel covered by two triangles of distinct depths
\* and colors, the nearer one later in the list
C6_Witness ==
  /\ AllDone
  /\ \E p \in Pixels :
       LET fr == Fragments(p[1], p[2])
       IN  \E i, j \in DOMAIN fr :
             /\ i < j
             /\ DistinctDepths(fr)
             /\ fr[j] < fr[i]
             /\ ColorAt(i, p[1], p[2]) # ColorAt(j, p[1], p[2])
             /\ StoredColor(p[1], p[2]) = ColorAt(j, p[1], p[2])

\* C7 (as claimed): a frame with zero triangles leaves every color cell
\* (20,20,30) and every depth cell +infinity.
C7_EmptyFrameDepthInfinity ==
  (AllDone /\ Len(screen_triangles) = 0) =>
    \A g \in 0 .. (NumPixels - 1) :
      fb.color_buffer[g] = Color(20, 20, 30) /\ fb.depth_buffer[g] = PosInfinity

\* C7 (amended): a frame with zero triangles leaves every color cell
\* (20,20,30) and every depth cell std::numeric_limits<float>::max(), the
\* largest finite float.
C7_EmptyFrameIsBackground ==
  (AllDone /\ Len(screen_triangles) = 0) =>
    \A g \in 0 .. (NumPixels - 1) :
      /\ fb.color_buffer[g] = Color(20, 20, 30)
      /\ fb.depth_buffer[g] = FLT_MAX
      /\ fb.depth_buffer[g] < PosInfinity

\* a finished frame of several tiles with no triangle
C7_Witness ==
  /\ AllDone
  /\ Len(screen_triangles) = 0
  /\ Cardinality(Tiles) > 1
  /\ Cardinality(BlitWrites) = NumPixels


\* ------------------------------------------------- reading a byte stream
\* the decimal number starting at position i: its value and where it ends
RECURSIVE ReadNum(_, _, _)
ReadNum(B, i, acc) ==
  IF i <= Len(B) /\ B[i] \in 48 .. 57
  THEN LET v == acc * 10 + (B[i] - 48)
       IN  IF v >= 0 THEN ReadNum(B, i + 1, v) ELSE [val |-> v, next |-> i]
  ELSE [val |-> acc, next |-> i]

Tok(t, c, next) == [t |-> t, c |-> c, next |-> next]

\* "R;G;Bm" at position i, as the token named t
ReadRGB(B, i, t) ==
  LET r == ReadNum(B, i, 0)
      g == ReadNum(B, r.next + 1, 0)
      b == ReadNum(B, g.next + 1, 0)
  IN  IF /\ r.next > i /\ HasAt(B, r.next, <<59>>)
         /\ g.next > r.next + 1 /\ HasAt(B, g.next, <<59>>)
         /\ b.next > g.next + 1 /\ HasAt(B, b.next, <<109>>)
      THEN Tok(t, [r |-> r.val, g |-> g.val, b |-> b.val], b.next + 1)
      ELSE Tok("junk", Black, i)

\* the terminal's reading of what stands at position i
TokenAt(B, i) ==
  IF B[i] = 10 THEN Tok("newline", Black, i + 1)
  ELSE IF HasAt(B, i, <<226, 150, 128>>) THEN Tok("glyph", Black, i + 3)
  ELSE IF HasAt(B, i, <<27, 91, 72>>) THEN Tok("home", Black, i + 3)
  ELSE IF HasAt(B, i, <<27, 91, 48, 109>>) THEN Tok("reset", Black, i + 4)
  ELSE IF HasAt(B, i, <<27, 91, 51, 56, 59, 50, 59>>) THEN ReadRGB(B, i + 7, "fg")
  ELSE IF HasAt(B, i, <<27, 91, 52, 56, 59, 50, 59>>) THEN ReadRGB(B, i + 7, "bg")
  ELSE Tok("junk", Black, i)

\* the whole stream as tokens <<kind, color>>; reading stops at what is
\* none of the above
RECURSIVE Tokens(_, _, _)
Tokens(B, i, acc) ==
  IF i > Len(B) THEN acc
  ELSE LET tk == TokenAt(B, i)
           acc2 == Append(acc, <<tk.t, tk.c>>)
       IN  IF tk.t = "junk" \/ Len(acc2) = 0 THEN acc2
           ELSE Tokens(B, tk.next, acc2)

\* the frame f is what the byte stream B draws, and B holds nothing else
EncodesFrame(B, f) ==
  LET tk == Tokens(B, 1, <<>>)
      W == f.width
      H == f.height
      R == (H + 1) \div 2
      stride == 3 * W + 2
  IN  /\ Len(tk) = 1 + R * stride
      /\ tk[1] = <<"home", Black>>
      /\ \A r \in 0 .. (R - 1) :
           LET base == 2 + r * stride
           IN  /\ \A x \in 0 .. (W - 1) :
                    /\ tk[base + 3 * x] = <<"fg", f.color_buffer[(2 * r) * W + x]>>
                    /\ tk[base + 3 * x + 1] =
                         <<"bg", IF 2 * r + 1 < H
                                 THEN f.color_buffer[(2 * r + 1) * W + x]
                                 ELSE [r |-> 0, g |-> 0, b |-> 0]>>
                    /\ tk[base + 3 * x + 2] = <<"glyph", Black>>
               /\ tk[base + 3 * W] = <<"reset", Black>>
               /\ tk[base + 3 * W + 1] = <<"newline", Black>>

RenderWriteAt(i) == out[i].op = "write" /\ out[i].by = "render"

\* C8: what TerminalRenderer::render writes for a W x H framebuffer reads
\* as exactly one cursor-home escape, then for each row pair y = 0, 2, ...
\* W records in column order, each a foreground escape with pixel (x, y)'s
\* RGB, a background escape with pixel (x, y + 1)'s RGB (black when
\* y + 1 >= H) and the bytes E2 96 80, then the reset escape and a newline;
\* and nothing else.
C8_RenderEncodesFrame ==
  /\ pc = "input" => \E i \in 1 .. Len(out) : RenderWriteAt(i)
  /\ \A i \in 1 .. Len(out) : RenderWriteAt(i) => EncodesFrame(out[i].bytes, fb)

\* a framebuffer of odd height, two columns and two different colors in its
\* last row has been written
C8_Witness ==
  /\ pc = "input"
  /\ fb.height = 3 /\ fb.width = 2
  /\ fb.color_buffer[4] # fb.color_buffer[5]
  /\ fb.color_buffer[0] # fb.color_buffer[2]
  /\ \E i \in 1 .. Len(out) : RenderWriteAt(i)

\* a frame's presentation stage is over
Presented == frame >= 1 /\ pc \in {"input", "poll"}

\* C9: in every frame the presentation stage gives the whole encoded frame
\* to standard output in exactly one write followed at once by one flush:
\* the write starts with the cursor-home escape, ends with the last row's
\* newline, and holds no byte of the resize clear or of the status footer;
\* before the presentation stage the frame has written nothing of it.
C9_OneWriteOneFlush ==
  /\ Presented =>
       \E i \in 1 .. (Len(out) - 1) :
         /\ RenderWriteAt(i)
         /\ out[i + 1].op = "flush" /\ out[i + 1].by = "render"
         /\ \A j \in (1 .. Len(out)) \ {i, i + 1} : out[j].by # "render"
         /\ HasAt(out[i].bytes, 1, <<27, 91, 72>>)
         /\ out[i].bytes[Len(out[i].bytes)] = 10
         /\ EncodesFrame(out[i].bytes, fb)
         /\ ~Occurs(<<27, 91, 50, 74>>, out[i].bytes)
         /\ ~Occurs(<<27, 91, 75>>, out[i].bytes)
         /\ \A j \in 1 .. (i - 1) : out[j].by = "resize"
         /\ \A j \in (i + 2) .. Len(out) : out[j].by \in {"screenshot", "footer"}
  /\ (frame >= 1 /\ ~Presented) => \A j \in 1 .. Len(out) : out[j].by # "render"

\* a frame that cleared the screen for a new size, presented, saved a
\* screenshot and printed its footer
C9_Witness ==
  /\ Presented /\ pc = "poll"
  /\ \E j \in 1 .. Len(out) : out[j].by = "resize"
  /\ \E j \in 1 .. Len(out) : out[j].by = "screenshot"
  /\ \E j \in 1 .. Len(out) : out[j].by = "footer"
  /\ fb.height > 2

\* full-screen clears written since the frame began
ClearCount ==
  Cardinality({j \in 1 .. Len(out) :
                 out[j].op = "write" /\ Occurs(<<27, 91, 50, 74>>, out[j].bytes)})

\* C10: whatever sizes the terminal reported, from the start of a frame's
\* geometry stage on the framebuffer is cols x 2 * max(1, rows - 3) for the
\* size (cols, rows) queried last, the projection aspect is framebuffer
\* width / framebuffer height, and the frame has written the full-screen
\* clear exactly once if the queried size differs from the one queried
\* before it and not at all otherwise (80x24 -> 160x48 gives 160 x 90).
C10_ResizeFollowsTerminal ==
  /\ fb.width = last_query[1]
  /\ fb.height = 2 * (IF last_query[2] - 3 > 1 THEN last_query[2] - 3 ELSE 1)
  /\ projection.aspect_num * fb.height = projection.aspect_den * fb.width
  /\ frame >= 1 => ClearCount = (IF size_changed THEN 1 ELSE 0)
  /\ PixelHeight(ScreenHeight(24)) = 42
  /\ PixelHeight(ScreenHeight(48)) = 90

\* the second frame's geometry stage begins after the terminal shrank below
\* the status rows
C10_Witness ==
  /\ frame >= 2 /\ pc = "geometry"
  /\ size_changed
  /\ last_query[2] = STATUS_ROWS
  /\ ClearCount = 1


\* ------------------------------------------------ the terminal's screen
\* what stands at position i of B, for a terminal: the tokens of TokenAt,
\* and the clear, erase-line, cursor-visibility and cursor-position escapes
\* (n is the row of a cursor position)
TermTok(t, n, next) == [t |-> t, n |-> n, next |-> next]
TermTokenAt(B, i) ==
  IF HasAt(B, i, <<27, 91, 50, 74>>) THEN TermTok("clear", 0, i + 4)
  ELSE IF HasAt(B, i, <<27, 91, 75>>) THEN TermTok("erase", 0, i + 3)
  ELSE IF HasAt(B, i, <<27, 91, 63, 50, 53, 108>>) THEN TermTok("hide", 0, i + 6)
  ELSE IF HasAt(B, i, <<27, 91, 63, 50, 53, 104>>) THEN TermTok("show", 0, i + 6)
  ELSE IF HasAt(B, i, <<27, 91>>) /\ ReadNum(B, i + 2, 0).next > i + 2
          /\ HasAt(B, ReadNum(B, i + 2, 0).next, <<59, 49, 72>>)
       THEN TermTok("cup", ReadNum(B, i + 2, 0).val, ReadNum(B, i + 2, 0).next + 3)
  ELSE LET tk == TokenAt(B, i) IN TermTok(tk.t, 0, tk.next)

\* a screen of `rows` rows: the cursor's row, the rows that hold glyphs of
\* the frame, and whether a status line was put on such a row.  A cursor
\* position beyond the last row goes to the last row; a newline on the last
\* row scrolls the screen up by one row.
ScreenStep(s, tk, by, rows) ==
  IF tk.t = "home" THEN [s EXCEPT !.row = 1]
  ELSE IF tk.t = "cup"
       THEN [s EXCEPT !.row = IF tk.n > rows THEN rows ELSE IF tk.n < 1 THEN 1 ELSE tk.n]
  ELSE IF tk.t = "newline"
       THEN IF s.row = rows
            THEN [s EXCEPT !.glyphs = {r - 1 : r \in s.glyphs \ {1}}]
            ELSE [s EXCEPT !.row = s.row + 1]
  ELSE IF tk.t = "glyph" THEN [s EXCEPT !.glyphs = s.glyphs \cup {s.row}]
  ELSE IF tk.t = "clear" THEN [s EXCEPT !.glyphs = {}]
  ELSE IF tk.t = "erase"
       THEN [s EXCEPT !.glyphs = s.glyphs \ {s.row},
                      !.hit = s.hit \/ (by = "footer" /\ s.row \in s.glyphs)]
  ELSE s

RECURSIVE ScreenBytes(_, _, _, _, _)
ScreenBytes(s, B, i, by, rows) ==
  IF i > Len(B) THEN s
  ELSE LET tk == TermTokenAt(B, i)
           s2 == ScreenStep(s, tk, by, rows)
       IN  IF tk.t = "junk" THEN s2
           ELSE IF s2 = s THEN ScreenBytes(s, B, tk.next, by, rows)
           ELSE ScreenBytes(s2, B, tk.next, by, rows)

\* printable text of a status line goes onto the cursor's row
ScreenText(s, op) ==
  IF op.text # "" /\ op.by = "footer" /\ s.row \in s.glyphs
  THEN [s EXCEPT !.hit = TRUE] ELSE s

RECURSIVE ScreenOps(_, _, _, _)
ScreenOps(s, ops, k, rows) ==
  IF k > Len(ops) THEN s
  ELSE LET s2 == ScreenText(ScreenBytes(s, ops[k].bytes, 1, ops[k].by, rows), ops[k])
       IN  IF s2 = s THEN ScreenOps(s, ops, k + 1, rows)
           ELSE ScreenOps(s2, ops, k + 1, rows)

\* the screen after the frame's output so far, on a terminal of the size
\* queried last
ScreenNow ==
  ScreenOps([row |-> 1, glyphs |-> {}, hit |-> FALSE], out, 1,
            IF last_query[2] < 1 THEN 1 ELSE last_query[2])

\* the rows the status lines address, in the order written
FooterRows ==
  LET cups == SelectSeq(out, LAMBDA op : op.by = "footer" /\ op.op = "write"
                                          /\ Len(op.bytes) > 0)
  IN  [k \in 1 .. Len(cups) |-> TermTokenAt(cups[k].bytes, 1).n]

\* C11: in every frame and for every terminal size, also with fewer than 4
\* rows where one character row is rendered, the two status lines are
\* addressed to rows H_char + 2 and H_char + 3 (H_char the number of rendered
\* character rows), and neither their erase-line nor their text lands on a
\* terminal row that holds rendered glyphs.
C11_FooterOffRenderedRows ==
  /\ ~ScreenNow.hit
  /\ screen_height * 2 = fb.height
  /\ FooterRows \in {<<>>, <<screen_height + 2, screen_height + 3>>}
  /\ (pc = "poll" /\ frame >= 1) => Len(FooterRows) = 2

\* the footer has been printed on a terminal of fewer than 3 rows, whose
\* only rendered row scrolled when its newline was written
C11_Witness ==
  /\ pc = "poll" /\ frame >= 1
  /\ last_query[2] = 1
  /\ Len(FooterRows) = 2
  /\ ScreenNow.row = 1


\* C12: on every path by which the program ends after TerminalRenderer::init
\* hid the cursor, also when the user ends the process during the frame
\* loop, the show-cursor escape (and the style reset) has been written
\* before the process ends: at the end the terminal shows its cursor.
C12_CursorRestoredAtExit == exited => cursor_visible


\* 0.06 and 1.4 on the grid, and a pitch cut to [-1.4, 1.4]
TurnStep == (6 * ONE) \div 100
PitchTop == (140 * ONE) \div 100
PitchCap(p) == IF p > PitchTop THEN PitchTop ELSE IF p < -PitchTop THEN -PitchTop ELSE p

\* what each key does to pitch and yaw, from the camera as it stands
KeysTurnAsSpecified ==
  /\ \A ch \in {"i", "I"} :
       /\ HandleKey(camera, ch).pitch = PitchCap(camera.pitch + TurnStep)
       /\ HandleKey(camera, ch).yaw = camera.yaw
  /\ \A ch \in {"k", "K"} :
       /\ HandleKey(camera, ch).pitch = PitchCap(camera.pitch - TurnStep)
       /\ HandleKey(camera, ch).yaw = camera.yaw
  /\ \A ch \in {"l", "L"} :
       /\ HandleKey(camera, ch).yaw = camera.yaw + TurnStep
       /\ HandleKey(camera, ch).pitch = camera.pitch
  /\ \A ch \in {"j", "J"} :
       /\ HandleKey(camera, ch).yaw = camera.yaw - TurnStep
       /\ HandleKey(camera, ch).pitch = camera.pitch
  /\ \A ch \in {"r", "R"} :
       HandleKey(camera, ch).yaw = 0 /\ HandleKey(camera, ch).pitch = 0
  /\ \A ch \in {"w", "W", "s", "S", "a", "A", "d", "D", "q", "Q", "e", "E", "p", "P"} :
       /\ HandleKey(camera, ch).yaw = camera.yaw
       /\ HandleKey(camera, ch).pitch = camera.pitch

\* C13: after any sequence of keyboard commands (W/S/A/D/Q/E/I/K/J/L/R/P in
\* either case) the camera pitch lies in [-1.4, 1.4]; each I adds 0.06 and
\* each K subtracts 0.06 before the clamp to that range; J and L add -0.06
\* and +0.06 to the yaw, which is not clamped; R resets both to 0 and no
\* other key changes either; and no step of the input loop changes pitch or
\* yaw in any other way.
C13_PitchClamped ==
  /\ [](camera.pitch >= -PitchTop /\ camera.pitch <= PitchTop)
  /\ []KeysTurnAsSpecified
  /\ [][/\ camera'.pitch \in {camera.pitch, PitchCap(camera.pitch + TurnStep),
                              PitchCap(camera.pitch - TurnStep), 0}
        /\ camera'.yaw \in {camera.yaw, camera.yaw + TurnStep, camera.yaw - TurnStep, 0}
        /\ camera'.pitch = camera.pitch \/ camera'.yaw = camera.yaw
             \/ (camera'.pitch = 0 /\ camera'.yaw = 0)]_vars

\* the pitch stands at the limit, where an I was clamped, and a screenshot
\* was taken
C13_Witness ==
  /\ camera.pitch = (140 * ONE) \div 100
  /\ screenshot_count > 0


\* C14: after Framebuffer::resize(W', H'), called in whatever state the
\* framebuffer is in, width = W', height = H', both grids have W' * H'
\* cells, every color cell is the background color and every depth cell the
\* initial (farthest) depth.  main calls resize exactly in the frames whose
\* queried size changed, with W' = columns and H' = 2 * max(1, rows - 3);
\* the geometry stage of such a frame starts from the framebuffer as resize
\* left it.
C14_ResizeResets ==
  (pc = "geometry" /\ size_changed) =>
    /\ fb.width = last_query[1]
    /\ fb.height = PixelHeight(ScreenHeight(last_query[2]))
    /\ DOMAIN fb.color_buffer = 0 .. (fb.width * fb.height - 1)
    /\ DOMAIN fb.depth_buffer = 0 .. (fb.width * fb.height - 1)
    /\ \A i \in DOMAIN fb.color_buffer : fb.color_buffer[i] = [r |-> 20, g |-> 20, b |-> 30]
    /\ \A i \in DOMAIN fb.depth_buffer : fb.depth_buffer[i] = FLT_MAX

\* ---------------------------------------------------------------------- C15
\* C15 as stated: for every loaded texture and every (u, v), sample(u, v)
\* reads the same texel as sample(u + 1, v) and as sample(u, v + 1), and the
\* texel it reads lies within [0, width - 1] x [0, height - 1].
C15_SamplePeriodic ==
  (sampled # <<>> /\ texture.loaded) =>
    /\ sampled.at.x \in 0 .. (texture.width - 1)
    /\ sampled.at.y \in 0 .. (texture.height - 1)
    /\ sampled.right = sampled.at
    /\ sampled.up = sampled.at

\* the float sum a + 1 is the exact sum
ExactPlusOne(a) == FAdd(a, FUnit) = a + FUnit

\* C15, amended: for every loaded texture and all floats (u, v) the texel
\* sample(u, v) reads lies within [0, width - 1] x [0, height - 1];
\* sample(u + 1, v) reads the same texel whenever the float sum u + 1 is
\* exact, and sample(u, v + 1) whenever v + 1 is exact.
C15_SamplePeriodicOnExactSums ==
  (sampled # <<>> /\ texture.loaded) =>
    /\ sampled.at.x \in 0 .. (texture.width - 1)
    /\ sampled.at.y \in 0 .. (texture.height - 1)
    /\ sampled.right.x \in 0 .. (texture.width - 1)
    /\ sampled.up.y \in 0 .. (texture.height - 1)
    /\ ExactPlusOne(sample_u) => sampled.right = sampled.at
    /\ ExactPlusOne(sample_v) => sampled.up = sampled.at

\* a call left of 0 and below 0 whose sums are exact and whose wrapped
\* coordinates select a texel other than the first column's and the last row's
C15_Witness ==
  /\ sampled # <<>> /\ texture.loaded
  /\ sample_u < 0 /\ sample_v < 0
  /\ ExactPlusOne(sample_u) /\ ExactPlusOne(sample_v)
  /\ sampled.at.x > 0 /\ sampled.at.y < texture.height - 1
  /\ sampled.right = sampled.at /\ sampled.up = sampled.at

\* ---------------------------------------------------------------------- C16
\* the earliest triangle of the list among those nearest at pixel (x, y)
FirstNearest(x, y) ==
  LET fr == Fragments(x, y)
      nearest == {i \in DOMAIN fr : fr[i] = MinDepth(fr)}
  IN  CHOOSE i \in nearest : \A j \in nearest : i <= j

\* C16: a fragment whose depth equals the depth already stored in the tile
\* never writes (a triangle writes a pixel only where it is strictly nearer
\* than every earlier triangle with a fragment there), and when several
\* triangles have the nearest depth at a pixel, the finished frame holds the
\* color of the one that is earliest in the triangle list.
C16_EarlierWinsTies ==
  /\ \A w \in TileWrites :
       \A i \in Covering(w.x, w.y) :
         i < w.tri => DepthAt(w.tri, w.x, w.y) < DepthAt(i, w.x, w.y)
  /\ AllDone =>
       \A p \in Pixels :
         DOMAIN Fragments(p[1], p[2]) # {} =>
           /\ StoredColor(p[1], p[2]) = ColorAt(FirstNearest(p[1], p[2]), p[1], p[2])
           /\ StoredDepth(p[1], p[2]) = DepthAt(FirstNearest(p[1], p[2]), p[1], p[2])

\* a finished frame with a pixel where two triangles of different colors have
\* the same, nearest depth and the earlier one's color is stored
C16_Witness ==
  /\ AllDone
  /\ \E p \in Pixels :
       LET fr == Fragments(p[1], p[2])
       IN  \E i, j \in DOMAIN fr :
             /\ i < j /\ fr[i] = fr[j] /\ fr[i] = MinDepth(fr)
             /\ ColorAt(i, p[1], p[2]) # ColorAt(j, p[1], p[2])
             /\ StoredColor(p[1], p[2]) = ColorAt(i, p[1], p[2])
             /\ \E w \in TileWrites : w.tri = i /\ w.x = p[1] /\ w.y = p[2]

\* ---------------------------------------------------------------------- C17
\* a tile worker starts its lambda (which reads the prepared triangles)
TileStarts ==
  \E t \in DOMAIN tile_pc :
    t \in DOMAIN tile_pc' /\ tile_pc[t] = "idle" /\ tile_pc'[t] = "local"

\* no slot of screen_triangles has been written by two geometry workers
SlotsDisjoint ==
  \A w1, w2 \in slot_writes : w1.slot = w2.slot => w1.by = w2.by

\* C17: within a frame the stages run in the order geometry, rasterization,
\* presentation.  A tile worker starts only when every geometry worker has
\* finished and every slot holds its prepared triangle; no two geometry
\* workers write the same slot; TerminalRenderer::render runs only when every
\* tile has been blitted; and the geometry of frame n begins only when the
\* presentations of the n - 1 frames before it have returned.
C17_StagesInOrder ==
  /\ [](SlotsDisjoint)
  /\ [][TileStarts =>
          /\ GeometryDone
          /\ screen_triangles = PrepareAll(mesh, fb.width, fb.height)]_vars
  /\ [][presented' # presented =>
          /\ pc = "present" /\ AllDone
          /\ \A t \in Tiles : \E w \in BlitWrites : w.tile = t
          /\ presented' = frame]_vars
  /\ [][(\E i \in DOMAIN geo_pc' : geo_pc'[i] = "done") /\ geo_pc' # geo_pc =>
          presented = frame - 1]_vars
  /\ [][(pc = "geometry" /\ pc' # pc) => presented = frame - 1]_vars

\* the second frame's tile workers running on two prepared triangles, after
\* the first frame was presented
C17_Witness ==
  /\ frame = 2 /\ presented = 1
  /\ pc = "raster"
  /\ Len(mesh) = 2
  /\ Cardinality({w.slot : w \in slot_writes}) = 2
  /\ \E t \in Tiles : tile_pc[t] = "local"
  /\ \E t \in Tiles : tile_pc[t] = "done"

\* ---------------------------------------------------------------------- C18
\* a clip-space w <= 0.001 at some vertex
HasWBehind(tri) == \E k \in 1 .. 3 : tri.clip_verts[k].W * 1000 <= ONE

\* the triangle list without its invalid triangles
RECURSIVE ValidOnly(_)
ValidOnly(tris) ==
  IF tris = <<>> THEN <<>>
  ELSE IF Head(tris).valid THEN <<Head(tris)>> \o ValidOnly(Tail(tris))
  ELSE ValidOnly(Tail(tris))

\* the triangle list with other values in the fields prepare_triangle leaves
\* unset (or of no use) in an invalid triangle
Scrambled(tris) ==
  [i \in 1 .. Len(tris) |->
     IF tris[i].valid THEN tris[i]
     ELSE [tris[i] EXCEPT !.screen_verts = <<V3(0, 0, 0), V3(3 * ONE, 0, 0), V3(0, 3 * ONE, 0)>>,
                          !.area = 9 * ONE * ONE,
                          !.min_x = 0, !.max_x = 7, !.min_y = 0, !.max_y = 7]]

\* C18: prepare_triangle marks a triangle invalid when a clip-space w is
\* <= 0.001 or, with every w above that, the absolute signed screen area is
\* < 0.001.  An invalid triangle writes no tile-local cell; every tile's
\* local buffers and the finished framebuffer are the ones the list without
\* the invalid triangles gives, whatever the invalid triangles' other fields
\* hold.
C18_InvalidTrianglesSkipped ==
  /\ \A i \in 1 .. Len(screen_triangles) :
       LET tri == screen_triangles[i]
       IN  (HasWBehind(tri) \/ (~HasWBehind(tri) /\ Abs(tri.area) * 1000 < ONE * ONE))
             => ~tri.valid
  /\ \A w \in TileWrites : screen_triangles[w.tri].valid
  /\ \A t \in Tiles :
       tile_pc[t] = "local" =>
         LET r == TileLocal(ValidOnly(screen_triangles), t, fb.width, fb.height,
                            tile_size, texture)
         IN  tile_colors[t] = r.colors /\ tile_depths[t] = r.depths
  /\ AllDone =>
       /\ fb = SerialRender(FbClear(fb), ValidOnly(screen_triangles), tile_size, texture)
       /\ fb = SerialRender(FbClear(fb), Scrambled(screen_triangles), tile_size, texture)

\* a finished frame whose list holds a triangle with a vertex behind the eye
\* or of zero area, followed by a triangle that was drawn
C18_Witness ==
  /\ AllDone
  /\ \E i, j \in 1 .. Len(screen_triangles) :
       /\ i < j
       /\ ~screen_triangles[i].valid
       /\ HasWBehind(screen_triangles[i]) \/ Abs(screen_triangles[i].area) * 1000 < ONE * ONE
       /\ \E w \in TileWrites : w.tri = j

\* ---------------------------------------------------------------------- C19
\* C19: when render_tiled has returned, the framebuffer is the one the
\* triangle list, the texture and the framebuffer's dimensions give on a
\* newly constructed framebuffer, whatever it held before the call (main
\* never calls Framebuffer::clear between frames); every pixel without an
\* accepted fragment of this frame holds the background color and the
\* initial depth.
C19_RenderIgnoresOldContents ==
  pc = "present" =>
    /\ fb = SerialRender(FramebufferNew(fb.width, fb.height), screen_triangles,
                         tile_size, texture)
    /\ \A p \in Pixels :
         Fragments(p[1], p[2]) = <<>> =>
           /\ StoredColor(p[1], p[2]) = BgColor
           /\ StoredDepth(p[1], p[2]) = FLT_MAX

\* a frame rendered over the frame before it, without a resize in between:
\* a pixel that was drawn in the earlier frame has no fragment in this one,
\* and another pixel has
C19_Witness ==
  /\ pc = "present" /\ frame >= 2
  /\ fb_before.width = fb.width /\ fb_before.height = fb.height
  /\ \E p \in Pixels :
       /\ Fragments(p[1], p[2]) = <<>>
       /\ fb_before.color_buffer[p[2] * fb.width + p[1]] # BgColor
       /\ fb_before.depth_buffer[p[2] * fb.width + p[1]] # FLT_MAX
       /\ StoredColor(p[1], p[2]) = BgColor
  /\ \E p \in Pixels : Fragments(p[1], p[2]) # <<>>

====
